---- MODULE Spec2Model ----
(***************************************************************************)
(* Snapshot-based incremental RAG index updating of the BranchCoder        *)
(* VS Code extension: src/snapshot.ts (createSnapshot, compareSnapshots,   *)
(* saveSnapshot, loadSnapshot) and the snapshot variant of extension.ts    *)
(* (initializeRAG, updateRAG, setupSnapshotChecker, activate).             *)
(*                                                                         *)
(* Two specifications share this module:                                   *)
(*   SpecDiff  applies compareSnapshots to every pair of small snapshots;  *)
(*   Spec      is the extension: activation, the start-up catch-up, the    *)
(*             periodic checker, the update processes and their timers.    *)
(***************************************************************************)
EXTENDS Integers, Sequences, FiniteSets, TLC

VARIABLES
    \* ---- SpecDiff: one call of compareSnapshots
    cmpOld,                 \* argument oldSnapshot
    cmpNew,                 \* argument newSnapshot
    cmpResult,              \* the returned {added, deleted, changed}, or NoResult
    \* ---- Spec: the extension
    now,                    \* Date.now(), in ticks of 75 s
    ws,                     \* the workspace: path -> content hash, NoFile when absent
    edits,                  \* number of edits of the workspace so far
    disk,                   \* snapshot.json of the workspace, NoSnapshot when missing
    ragInitializationInProgress,
    ragUpdateInProgress,
    pendingChangedFiles,
    pendingDeletedFiles,
    lastUpdateTime,
    flow,                   \* position of activate.initializeRAGForWorkspace
    catchUp,                \* locals of the catch-up: oldSnapshot, newSnapshot
    snapshotCheckTimer,     \* {} when undefined, else {the time setInterval was armed at}
    initialCheck,           \* the setTimeout(checkSnapshotAndUpdate, 2000): {} or {its due time}
    oldSnapshot,            \* the checker closure's oldSnapshot, NoSnapshot for null
    checks,                 \* invocations of checkSnapshotAndUpdate awaiting createSnapshot
    procs,                  \* update processes spawned by updateRAG, with their promise and timer
    due,                    \* the periodic timer has come due at the current time and has not run yet
    lastEvent,              \* what the last step did (observation only)
    \* ---- SpecWatch: the file-watcher variant of extension.ts
    fileWatcher,            \* the FileSystemWatcher is set up and not disposed
    fileChangeDebounceTimer,\* {} when not armed, else {half seconds until it fires}
    watchUpdateInProgress,  \* ragUpdateInProgress
    watchChangedFiles,      \* pendingChangedFiles
    watchDeletedFiles,      \* pendingDeletedFiles
    watchProcs,             \* update processes spawned by updateRAG, with their timer
    watchNow,               \* Date.now(), in ticks of 75 s
    notifications,          \* number of file-system notifications so far
    burst,                  \* files notified since the debounce timer last fired (observation only)
    watchEvent,             \* what the last step did (observation only)
    \* ---- SpecSnap: one call of createSnapshot
    snapWorkspace,          \* the code files of the workspace: path -> content hash
    snapUnreadable,         \* the files whose readFile fails during the scan
    snapResult,             \* the returned Snapshot, or NoResult
    \* ---- SpecChat: chat requests next to the updates of the index
    chatRequests,           \* number of ChatPanel.sendMessage calls so far
    chatRunning,            \* number of ai_service processes running
    chatResolved,           \* number of callPythonAI promises resolved
    chatRejected,           \* number of callPythonAI promises rejected
    \* ---- SpecInterval: the update interval and the gate of the periodic check
    envFile,                \* python/.env: NoEnv when missing, else its lines
    ivTimer,                \* {} before setup, else {period of setInterval in seconds}
    ivNow,                  \* Date.now() in seconds
    ivSetupAt,              \* time of setupSnapshotChecker
    ivFires,                \* times the setInterval timer has fired
    ivInitialPending,       \* the setTimeout(..., 2000) has not fired yet
    ivLastUpdateTime,       \* lastUpdateTime in seconds
    ivEvent,                \* the last check: when, lastUpdateTime before it, scanned or not
    \* ---- SpecPath: getWorkspaceStoragePath
    pathWorkspaceDirs,      \* two workspaceDir arguments, each a sequence of path segments
    pathExtensionPath,      \* the extensionPath argument
    pathResult,             \* the two storage directories returned, or NoResult
    \* ---- SpecRetrieve: retrieval over the three stores
    storeSizes,             \* number of units in each store
    initialCandidates,      \* argument of retrieve
    rerankTopN,             \* argument of retrieve
    enableRerank,           \* argument of retrieve
    retrieved,              \* the list retrieve returned, or NoResult
    \* ---- SpecFolders: initialization and updates when workspace folders are added
    wfHandlers,             \* position of each run of the initialization handler
    wfInitializationInProgress,\* ragInitializationInProgress
    wfInitProcs,            \* handlers whose initialization process is running
    wfUpdateInProgress,     \* ragUpdateInProgress
    wfPendingChanged,       \* pendingChangedFiles
    wfPendingDeleted,       \* pendingDeletedFiles
    wfUpdateProcs,          \* running update processes, each with its waiter
    wfChecker,              \* the snapshot checker's timer is armed
    \* ---- SpecStore: snapshot.json written by saveSnapshot and read by loadSnapshot
    stFile,                 \* snapshot.json: missing, not JSON, or its JSON value
    stSnapshot,             \* the Snapshot in memory (as createSnapshot returns it)
    stNow,                  \* Date.now() when loadSnapshot runs
    stLoaded,               \* what loadSnapshot returned, or NoResult
    stUpdateStarted,        \* the check has called updateRAG
    stPhase,                \* start, saved, loaded, roundTrip, rescanned or checked
    \* ---- SpecStream: callPythonAI reading the standard output of the Python process
    pyBytes,                \* the bytes the Python process writes to stdout
    pyPos,                  \* bytes delivered to the data handler so far
    buffer,                 \* the text after the last newline seen
    forwarded,              \* events posted to the webview, in order
    finalMessage,           \* finalMessage of callPythonAI
    chatPromise,            \* pending, resolved (with value) or rejected
    \* ---- SpecHistory: chatHistory under sendMessage and clearChat
    chatHistory,            \* ChatPanel.chatHistory, each entry with the sendMessage call it comes from
    chatCalls,              \* number of sendMessage calls so far
    chatInFlight,           \* calls awaiting callPythonAI
    chatCleared,            \* calls issued before the last clearChat
    chatClears,             \* number of clearChat calls so far
    \* ---- SpecPatch: applyPatchToText
    patchText,              \* the text, as the sequence of its lines
    patchContent,           \* the patch content, as the sequence of its lines
    patchResult,            \* the text returned, Thrown, or NoResult
    \* ---- SpecButtons: the Accept/Reject buttons of a patch
    cpCurrentPatchSessionId,\* ChatPanel.currentPatchSessionId, 0 for null
    cpHandlers,             \* the tool-call handlers started, in order: tool, position, sessionId
    cpNow,                  \* Date.now()
    cpPosted,               \* messages posted to the webview and not yet received
    wvCurrentPatchSessionId,\* currentPatchSessionId of the webview script, 0 for null
    wvShown,                \* patchButtonsContainer has class show
    wvClicks,               \* clicks on Accept or Reject so far
    \* ---- SpecConv: useConversation, historical replay and live event stream
    cvLog,                  \* the number of events the backend has recorded, with sequence numbers 1..cvLog
    eventsRef,              \* eventsRef.current, the sequence numbers passed to onEventsUpdate
    cvAt,                   \* position of initializeConnection: start, history, replay, done
    historicalEvents,       \* historicalEvents of loadHistoricalEvents (done event left out)
    isCompleted,            \* isCompleted of loadHistoricalEvents
    replayNext,             \* sequence number of the next event of the replay stream
    replayOpen,             \* the replay stream is open
    replayTimer,            \* the 10 s timer of loadHistoricalEvents is pending
    liveOpen,               \* the live event stream is open
    liveNext,               \* sequence number of the next event of the live stream
    cvReconnects            \* calls of reconnect so far

diffVars == <<cmpOld, cmpNew, cmpResult>>
extVars == <<now, ws, edits, disk, ragInitializationInProgress, ragUpdateInProgress,
             pendingChangedFiles, pendingDeletedFiles, lastUpdateTime, flow, catchUp,
             snapshotCheckTimer, initialCheck, oldSnapshot, checks, procs, due, lastEvent>>
watchVars == <<fileWatcher, fileChangeDebounceTimer, watchUpdateInProgress, watchChangedFiles,
               watchDeletedFiles, watchProcs, watchNow, notifications, burst, watchEvent>>
snapVars == <<snapWorkspace, snapUnreadable, snapResult>>
chatVars == <<chatRequests, chatRunning, chatResolved, chatRejected>>
ivVars == <<envFile, ivTimer, ivNow, ivSetupAt, ivFires, ivInitialPending, ivLastUpdateTime, ivEvent>>
pathVars == <<pathWorkspaceDirs, pathExtensionPath, pathResult>>
retrieveVars == <<storeSizes, initialCandidates, rerankTopN, enableRerank, retrieved>>
folderVars == <<wfHandlers, wfInitializationInProgress, wfInitProcs, wfUpdateInProgress, wfPendingChanged, wfPendingDeleted, wfUpdateProcs, wfChecker>>
storeVars == <<stFile, stSnapshot, stNow, stLoaded, stUpdateStarted, stPhase>>
streamVars == <<pyBytes, pyPos, buffer, forwarded, finalMessage, chatPromise>>
historyVars == <<chatHistory, chatCalls, chatInFlight, chatCleared, chatClears>>
patchVars == <<patchText, patchContent, patchResult>>
buttonVars == <<cpCurrentPatchSessionId, cpHandlers, cpNow, cpPosted, wvCurrentPatchSessionId, wvShown, wvClicks>>
convVars == <<cvLog, eventsRef, cvAt, historicalEvents, isCompleted, replayNext, replayOpen, replayTimer, liveOpen, liveNext, cvReconnects>>
vars == <<diffVars, extVars, watchVars, snapVars, chatVars, ivVars, pathVars, retrieveVars, folderVars, storeVars, streamVars, historyVars, patchVars, buttonVars, convVars>>

\* What a step of one specification leaves alone: the variables of the others.
othersDiff == <<extVars, watchVars, snapVars, chatVars, ivVars, pathVars, retrieveVars, folderVars, storeVars, streamVars, historyVars, patchVars, buttonVars, convVars>>
othersExt == <<diffVars, watchVars, snapVars, chatVars, ivVars, pathVars, retrieveVars, folderVars, storeVars, streamVars, historyVars, patchVars, buttonVars, convVars>>
othersWatch == <<diffVars, extVars, snapVars, chatVars, ivVars, pathVars, retrieveVars, folderVars, storeVars, streamVars, historyVars, patchVars, buttonVars, convVars>>
othersSnap == <<diffVars, extVars, watchVars, chatVars, ivVars, pathVars, retrieveVars, folderVars, storeVars, streamVars, historyVars, patchVars, buttonVars, convVars>>
othersChat == <<diffVars, extVars, snapVars, ivVars, pathVars, retrieveVars, folderVars, storeVars, streamVars, historyVars, patchVars, buttonVars, convVars>>
othersIv == <<diffVars, extVars, watchVars, snapVars, chatVars, pathVars, retrieveVars, folderVars, storeVars, streamVars, historyVars, patchVars, buttonVars, convVars>>
othersPath == <<diffVars, extVars, watchVars, snapVars, chatVars, ivVars, retrieveVars, folderVars, storeVars, streamVars, historyVars, patchVars, buttonVars, convVars>>
othersRetrieve == <<diffVars, extVars, watchVars, snapVars, chatVars, ivVars, pathVars, folderVars, storeVars, streamVars, historyVars, patchVars, buttonVars, convVars>>
othersFolders == <<diffVars, extVars, watchVars, snapVars, chatVars, ivVars, pathVars, retrieveVars, storeVars, streamVars, historyVars, patchVars, buttonVars, convVars>>
othersStore == <<diffVars, extVars, watchVars, snapVars, chatVars, ivVars, pathVars, retrieveVars, folderVars, streamVars, historyVars, patchVars, buttonVars, convVars>>
othersStream == <<diffVars, extVars, watchVars, snapVars, chatVars, ivVars, pathVars, retrieveVars, folderVars, storeVars, historyVars, patchVars, buttonVars, convVars>>
othersHistory == <<diffVars, extVars, watchVars, snapVars, chatVars, ivVars, pathVars, retrieveVars, folderVars, storeVars, streamVars, patchVars, buttonVars, convVars>>
othersPatch == <<diffVars, extVars, watchVars, snapVars, chatVars, ivVars, pathVars, retrieveVars, folderVars, storeVars, streamVars, historyVars, buttonVars, convVars>>
othersButtons == <<diffVars, extVars, watchVars, snapVars, chatVars, ivVars, pathVars, retrieveVars, folderVars, storeVars, streamVars, historyVars, patchVars, convVars>>
othersConv == <<diffVars, extVars, watchVars, snapVars, chatVars, ivVars, pathVars, retrieveVars, folderVars, storeVars, streamVars, historyVars, patchVars, buttonVars>>

----------------------------------------------------------------------------
(* Values *)

Files == {"a.py", "b.py"}
Hashes == {"h1", "h2"}
NoFile == "absent"
NoSnapshot == [null |-> TRUE]
NoResult == [none |-> TRUE]

\* Set of the elements of a sequence.
Range(s) == {s[i] : i \in 1..Len(s)}

----------------------------------------------------------------------------
(* src/snapshot.ts *)

\* A Snapshot is [files, timestamp]; files is a JS Map, kept as the sequence of its
\* entries in insertion order, each entry a FileSnapshot [path, hash, mtime].
MapHas(files, p) == \E i \in 1..Len(files) : files[i].path = p
MapGet(files, p) == files[CHOOSE i \in 1..Len(files) : files[i].path = p]
MapKeys(files) == {files[i].path : i \in 1..Len(files)}

\* A first loop that also compares the modification times (not the code's).
RECURSIVE AddedChangedLoop_Mtime(_, _, _, _)
AddedChangedLoop_Mtime(oldFiles, newFiles, i, acc) ==
    IF i > Len(newFiles) THEN acc
    ELSE LET newFile == newFiles[i]
             relativePath == newFile.path
         IN  IF ~MapHas(oldFiles, relativePath)
             THEN AddedChangedLoop_Mtime(oldFiles, newFiles, i + 1,
                      [acc EXCEPT !.added = Append(@, relativePath)])
             ELSE IF \/ MapGet(oldFiles, relativePath).hash # newFile.hash
                     \/ MapGet(oldFiles, relativePath).mtime # newFile.mtime
             THEN AddedChangedLoop_Mtime(oldFiles, newFiles, i + 1,
                      [acc EXCEPT !.changed = Append(@, relativePath)])
             ELSE AddedChangedLoop_Mtime(oldFiles, newFiles, i + 1, acc)

\* A second loop that reports no deletion (not the code's).
DeletedLoop_None(oldFiles, newFiles, i, acc) == acc

\* First loop of compareSnapshots: for (const [relativePath, newFile] of newSnapshot.files)
RECURSIVE AddedChangedLoop(_, _, _, _)
AddedChangedLoop(oldFiles, newFiles, i, acc) ==
    IF i > Len(newFiles) THEN acc
    ELSE LET newFile == newFiles[i]
             relativePath == newFile.path
         IN  IF ~MapHas(oldFiles, relativePath)
             THEN AddedChangedLoop(oldFiles, newFiles, i + 1,
                      [acc EXCEPT !.added = Append(@, relativePath)])
             ELSE IF MapGet(oldFiles, relativePath).hash # newFile.hash
             THEN AddedChangedLoop(oldFiles, newFiles, i + 1,
                      [acc EXCEPT !.changed = Append(@, relativePath)])
             ELSE AddedChangedLoop(oldFiles, newFiles, i + 1, acc)

\* Second loop of compareSnapshots: for (const [relativePath] of oldSnapshot.files)
RECURSIVE DeletedLoop(_, _, _, _)
DeletedLoop(oldFiles, newFiles, i, acc) ==
    IF i > Len(oldFiles) THEN acc
    ELSE IF ~MapHas(newFiles, oldFiles[i].path)
    THEN DeletedLoop(oldFiles, newFiles, i + 1,
             [acc EXCEPT !.deleted = Append(@, oldFiles[i].path)])
    ELSE DeletedLoop(oldFiles, newFiles, i + 1, acc)

compareSnapshots(oldS, newS) ==
    DeletedLoop(oldS.files, newS.files, 1,
        AddedChangedLoop(oldS.files, newS.files, 1,
            [added |-> <<>>, deleted |-> <<>>, changed |-> <<>>]))

----------------------------------------------------------------------------
(* SpecDiff: compareSnapshots on every pair of snapshots over three paths *)

DiffPaths == {"a", "b", "c"}
DiffHashes == {"h1", "h2", "h3", "h4"}
DiffMtimes == {10, 20}
DiffTimestamps == {100, 200}

\* Every Map over a subset of DiffPaths, in every insertion order, its files last
\* modified at mtime.
DiffFileMaps(mtime) ==
    LET Entries == [path : DiffPaths, hash : DiffHashes, mtime : {mtime}]
        Seqs == UNION {[1..n -> Entries] : n \in 0..Cardinality(DiffPaths)}
    IN  {s \in Seqs : \A i, j \in 1..Len(s) : i # j => s[i].path # s[j].path}

\* The old snapshot was taken at the earlier time of older files; the new one at
\* either time, of files as old or newer.
DiffOldSnapshots == [files : DiffFileMaps(10), timestamp : {100}]
DiffNewSnapshots ==
    [files : UNION {DiffFileMaps(m) : m \in DiffMtimes}, timestamp : DiffTimestamps]

Compare ==
    /\ cmpResult = NoResult
    /\ cmpResult' = compareSnapshots(cmpOld, cmpNew)
    /\ UNCHANGED <<cmpOld, cmpNew>>
    /\ UNCHANGED othersDiff

----------------------------------------------------------------------------
(* The extension (snapshot variant of extension.ts)                        *)
(*                                                                         *)
(* Time is counted in ticks of 75 s, from the end of RAG initialization,    *)
(* and python/.env sets RAG_UPDATE_INTERVAL_SECONDS=150.                   *)
(* Code between two awaits of real I/O runs as one step: loadSnapshot and  *)
(* saveSnapshot only make synchronous fs calls, so their awaits resume in  *)
(* the same turn of the event loop.                                        *)

MaxTime == 8                \* the clock stops here
MaxEdits == 2               \* edits of the workspace in one run

UpdateInterval == 2         \* getUpdateIntervalSeconds: 150 s, two ticks
InitialCheckDelay == 1      \* setTimeout(checkSnapshotAndUpdate, 2000): 2 s, within the first tick after setup
UpdateTimeout == 4          \* setTimeout(..., 300000) in updateRAG: 300 s, four ticks

FileOrder == <<"a.py", "b.py">>
UnreadableSets == {{}} \cup {{f} : f \in Files}

\* A createSnapshot that gives up at a file it cannot read (not the code's).
createSnapshot_Throws(w, unreadable) ==
    IF \E f \in unreadable : w[f] # NoFile
    THEN NoSnapshot
    ELSE [files |-> [i \in 1..Len(SelectSeq(FileOrder, LAMBDA f : w[f] # NoFile)) |->
                       [path |-> SelectSeq(FileOrder, LAMBDA f : w[f] # NoFile)[i],
                        hash |-> w[SelectSeq(FileOrder, LAMBDA f : w[f] # NoFile)[i]]]]]

\* createSnapshot: every code file whose hash could be computed. The extension never
\* reads a snapshot's timestamp or a file's mtime, so its snapshots carry the files only.
createSnapshot(w, unreadable) ==
    LET codeFiles == SelectSeq(FileOrder, LAMBDA f : w[f] # NoFile)
        hashed == SelectSeq(codeFiles, LAMBDA f : f \notin unreadable)
    IN  [files |-> [i \in 1..Len(hashed) |->
                       [path |-> hashed[i], hash |-> w[hashed[i]]]]]

\* saveSnapshot writes the files to snapshot.json; loadSnapshot reads them back, and
\* returns null when the file is missing.
saveSnapshot(snapshot) == [files |-> snapshot.files]
loadSnapshot(d) ==
    IF d = NoSnapshot THEN NoSnapshot ELSE [files |-> d.files]

totalChanges(changes) == Len(changes.added) + Len(changes.changed) + Len(changes.deleted)

\* A forEach that leaves the added files out (not the code's).
AddChanged_NoAdded(pending, changes) == pending \cup Range(changes.changed)

\* allChanged.forEach(file => pendingChangedFiles.add(file))
AddChanged(pending, changes) == pending \cup Range(changes.added) \cup Range(changes.changed)
\* changes.deleted.forEach(file => pendingDeletedFiles.add(file))
AddDeleted(pending, changes) == pending \cup Range(changes.deleted)

\* updateRAG up to the point where it returns its promise. started is FALSE when the
\* update script is missing or the process cannot be spawned ('error' event): the
\* promise is then rejected with ragUpdateInProgress reset.
updateRAG(inProgress, pendingChanged, pendingDeleted, started) ==
    IF inProgress
    THEN [result |-> "returned", inProgress |-> inProgress,
          pendingChanged |-> pendingChanged, pendingDeleted |-> pendingDeleted,
          changed_files |-> {}, deleted_files |-> {}]
    ELSE IF pendingChanged = {} /\ pendingDeleted = {}
    THEN [result |-> "returned", inProgress |-> inProgress,
          pendingChanged |-> pendingChanged, pendingDeleted |-> pendingDeleted,
          changed_files |-> {}, deleted_files |-> {}]
    ELSE [result |-> IF started THEN "spawned" ELSE "rejected",
          inProgress |-> started,
          pendingChanged |-> {}, pendingDeleted |-> {},
          changed_files |-> pendingChanged, deleted_files |-> pendingDeleted]

\* The process updateRAG spawned, its promise and its 5-minute timer.
NewProc(r, waiter, newSnapshot, base) ==
    [id |-> now, running |-> TRUE, waiter |-> waiter,
     changed_files |-> r.changed_files, deleted_files |-> r.deleted_files,
     newSnapshot |-> newSnapshot, base |-> base, cancelled |-> FALSE]

\* After the process has exited only the timer of the call is left.
Exited(p) ==
    [id |-> p.id, running |-> FALSE, waiter |-> p.waiter,
     changed_files |-> {}, deleted_files |-> {},
     newSnapshot |-> NoSnapshot, base |-> NoSnapshot, cancelled |-> FALSE]

Running == {p \in procs : p.running}

\* checkSnapshotAndUpdate: has the update interval passed?
IntervalPassed(currentTime) ==
    LET timeSinceLastUpdate ==
            IF lastUpdateTime > 0 THEN currentTime - lastUpdateTime ELSE UpdateInterval
    IN  timeSinceLastUpdate >= UpdateInterval

\* setupSnapshotChecker: a fresh closure (oldSnapshot = null), setInterval and the
\* one-shot setTimeout.
SetupSnapshotChecker ==
    /\ oldSnapshot' = NoSnapshot
    /\ snapshotCheckTimer' = {now}
    /\ initialCheck' = {now + InitialCheckDelay}
    /\ flow' = "watching"

Event(type) == [type |-> type]

\* A file of the workspace is created, edited or deleted (by the user, at any time).
Edit(f, h) ==
    /\ edits < MaxEdits
    /\ h # ws[f]
    /\ ws' = [ws EXCEPT ![f] = h]
    /\ edits' = edits + 1
    /\ lastEvent' = Event("edit")
    /\ UNCHANGED <<now, disk, ragInitializationInProgress, ragUpdateInProgress,
                   pendingChangedFiles, pendingDeletedFiles, lastUpdateTime, flow, catchUp,
                   snapshotCheckTimer, initialCheck, oldSnapshot, checks, procs, due>>
    /\ UNCHANGED othersExt

\* initializeRAGForWorkspace: the initialization process closes. ok: it exited with
\* code 0 and status success; otherwise initializeRAG rejects (also on its timeout or a
\* spawn error) and neither the catch-up nor the checker is started. After a success
\* the catch-up loads the persisted snapshot and starts createSnapshot.
InitClose(ok) ==
    /\ flow = "init"
    /\ ragInitializationInProgress' = FALSE
    /\ IF ok
       THEN LET loaded == loadSnapshot(disk)
            IN  /\ catchUp' = loaded
                /\ flow' = IF loaded # NoSnapshot THEN "catchUpScan" ELSE "initialScan"
       ELSE /\ flow' = "failed"
            /\ UNCHANGED catchUp
    /\ lastEvent' = Event(IF ok THEN "initialized" ELSE "initFailed")
    /\ UNCHANGED <<now, ws, edits, disk, ragUpdateInProgress, pendingChangedFiles,
                   pendingDeletedFiles, lastUpdateTime, snapshotCheckTimer, initialCheck,
                   oldSnapshot, checks, procs, due>>
    /\ UNCHANGED othersExt

\* Catch-up, persisted snapshot found: createSnapshot returns; compare; when there are
\* changes add them to the pending sets and call updateRAG, else save the new snapshot
\* and set up the checker.
CatchUpScanDone(unreadable, started) ==
    /\ flow = "catchUpScan"
    /\ LET newSnapshot == createSnapshot(ws, unreadable)
           changes == compareSnapshots(catchUp, newSnapshot)
       IN  IF totalChanges(changes) > 0
           THEN LET r == updateRAG(ragUpdateInProgress,
                                   AddChanged(pendingChangedFiles, changes),
                                   AddDeleted(pendingDeletedFiles, changes), started)
                IN  /\ ragUpdateInProgress' = r.inProgress
                    /\ pendingChangedFiles' = r.pendingChanged
                    /\ pendingDeletedFiles' = r.pendingDeleted
                    /\ IF r.result = "spawned"
                       THEN /\ procs' = procs \cup {NewProc(r, "catchUp", newSnapshot, catchUp)}
                            /\ flow' = "catchUpUpdate"
                            /\ lastEvent' = [type |-> "spawned", by |-> "catchUp"]
                            /\ UNCHANGED <<disk, lastUpdateTime, snapshotCheckTimer,
                                           initialCheck, oldSnapshot>>
                       ELSE IF r.result = "rejected"
                       THEN \* catch: create an initial snapshot as fallback
                            /\ flow' = "fallbackScan"
                            /\ lastEvent' = [type |-> "updateFailed", by |-> "catchUp"]
                            /\ UNCHANGED <<disk, lastUpdateTime, snapshotCheckTimer,
                                           initialCheck, oldSnapshot, procs>>
                       ELSE \* updateRAG returned without spawning
                            /\ lastUpdateTime' = now
                            /\ disk' = saveSnapshot(newSnapshot)
                            /\ SetupSnapshotChecker
                            /\ lastEvent' = [type |-> "saved", why |-> "updateReturned", by |-> "catchUp"]
                            /\ UNCHANGED procs
           ELSE /\ disk' = saveSnapshot(newSnapshot)
                /\ SetupSnapshotChecker
                /\ lastEvent' = [type |-> "saved", why |-> "noChanges", by |-> "catchUp"]
                /\ UNCHANGED <<ragUpdateInProgress, pendingChangedFiles, pendingDeletedFiles,
                               lastUpdateTime, procs>>
    /\ UNCHANGED <<now, ws, edits, ragInitializationInProgress, catchUp, checks, due>>
    /\ UNCHANGED othersExt

\* Catch-up, no persisted snapshot (initialScan), or the catch block after a failed
\* catch-up (fallbackScan): createSnapshot returns, the snapshot is saved and the
\* checker is set up.
InitialScanDone(unreadable) ==
    /\ flow \in {"initialScan", "fallbackScan"}
    /\ disk' = saveSnapshot(createSnapshot(ws, unreadable))
    /\ SetupSnapshotChecker
    /\ lastEvent' = [type |-> "saved", by |-> "catchUp",
                     why |-> IF flow = "fallbackScan" THEN "fallback" ELSE "initial"]
    /\ UNCHANGED <<now, ws, edits, ragInitializationInProgress, ragUpdateInProgress,
                   pendingChangedFiles, pendingDeletedFiles, lastUpdateTime, catchUp,
                   checks, procs, due>>
    /\ UNCHANGED othersExt

\* A timer calls checkSnapshotAndUpdate: when the interval has passed the invocation
\* starts createSnapshot, else it does nothing.
StartCheck ==
    checks' = IF IntervalPassed(now) THEN checks \cup {now} ELSE checks

\* The setInterval timer fires.
PeriodicCheck ==
    /\ due
    /\ due' = FALSE
    /\ StartCheck
    /\ lastEvent' = [type |-> "timer", passed |-> IntervalPassed(now)]
    /\ UNCHANGED <<now, ws, edits, disk, ragInitializationInProgress, ragUpdateInProgress,
                   pendingChangedFiles, pendingDeletedFiles, lastUpdateTime, flow, catchUp,
                   snapshotCheckTimer, initialCheck, oldSnapshot, procs>>
    /\ UNCHANGED othersExt

\* The setTimeout(checkSnapshotAndUpdate, 2000) of setupSnapshotChecker fires.
InitialCheck ==
    /\ initialCheck = {now}
    /\ initialCheck' = {}
    /\ StartCheck
    /\ lastEvent' = [type |-> "timer", passed |-> IntervalPassed(now)]
    /\ UNCHANGED <<now, ws, edits, disk, ragInitializationInProgress, ragUpdateInProgress,
                   pendingChangedFiles, pendingDeletedFiles, lastUpdateTime, flow, catchUp,
                   snapshotCheckTimer, oldSnapshot, procs, due>>
    /\ UNCHANGED othersExt

\* checkSnapshotAndUpdate after createSnapshot has returned (currentTime was read
\* before it): load the old snapshot if the closure has none, compare, and either
\* trigger updateRAG, or save the snapshot (no changes, or first snapshot).
CheckScanDone(currentTime, unreadable, started) ==
    /\ currentTime \in checks
    /\ checks' = checks \ {currentTime}
    /\ LET newSnapshot == createSnapshot(ws, unreadable)
           old == IF oldSnapshot = NoSnapshot THEN loadSnapshot(disk) ELSE oldSnapshot
       IN  IF old # NoSnapshot
           THEN LET changes == compareSnapshots(old, newSnapshot)
                IN  IF totalChanges(changes) > 0
                    THEN LET r == updateRAG(ragUpdateInProgress,
                                            AddChanged(pendingChangedFiles, changes),
                                            AddDeleted(pendingDeletedFiles, changes), started)
                         IN  /\ lastUpdateTime' = currentTime
                             /\ ragUpdateInProgress' = r.inProgress
                             /\ pendingChangedFiles' = r.pendingChanged
                             /\ pendingDeletedFiles' = r.pendingDeleted
                             /\ IF r.result = "spawned"
                                THEN /\ procs' = procs \cup {NewProc(r, "check", newSnapshot, old)}
                                     /\ oldSnapshot' = old
                                     /\ lastEvent' = [type |-> "spawned", by |-> "check"]
                                     /\ UNCHANGED disk
                                ELSE IF r.result = "rejected"
                                THEN \* catch: keep old snapshot on error
                                     /\ oldSnapshot' = old
                                     /\ lastEvent' = [type |-> "updateFailed", by |-> "check"]
                                     /\ UNCHANGED <<disk, procs>>
                                ELSE \* updateRAG returned without spawning
                                     /\ disk' = saveSnapshot(newSnapshot)
                                     /\ oldSnapshot' = newSnapshot
                                     /\ lastEvent' = [type |-> "saved", why |-> "updateReturned", by |-> "check"]
                                     /\ UNCHANGED procs
                    ELSE /\ disk' = saveSnapshot(newSnapshot)
                         /\ oldSnapshot' = newSnapshot
                         /\ lastUpdateTime' = currentTime
                         /\ lastEvent' = [type |-> "saved", why |-> "noChanges", by |-> "check"]
                         /\ UNCHANGED <<ragUpdateInProgress, pendingChangedFiles,
                                        pendingDeletedFiles, procs>>
           ELSE \* first snapshot, just save it
                /\ disk' = saveSnapshot(newSnapshot)
                /\ oldSnapshot' = newSnapshot
                /\ lastUpdateTime' = currentTime
                /\ lastEvent' = [type |-> "saved", why |-> "initial", by |-> "check"]
                /\ UNCHANGED <<ragUpdateInProgress, pendingChangedFiles,
                               pendingDeletedFiles, procs>>
    /\ UNCHANGED <<now, ws, edits, ragInitializationInProgress, flow, catchUp,
                   snapshotCheckTimer, initialCheck, due>>
    /\ UNCHANGED othersExt

\* What the code awaiting updateRAG does when the promise settles.
\* Resolved, in checkSnapshotAndUpdate: save the new snapshot; in the catch-up:
\* lastUpdateTime = Date.now(), save the new snapshot, set up the checker.
Resolved(p) ==
    /\ disk' = saveSnapshot(p.newSnapshot)
    /\ IF p.waiter = "check"
       THEN /\ oldSnapshot' = p.newSnapshot
            /\ UNCHANGED <<lastUpdateTime, flow, snapshotCheckTimer, initialCheck>>
       ELSE /\ lastUpdateTime' = now
            /\ SetupSnapshotChecker

\* Rejected, in checkSnapshotAndUpdate: keep the old snapshot; in the catch-up: the
\* catch block starts createSnapshot for a fallback snapshot.
Rejected(p) ==
    /\ flow' = IF p.waiter = "check" THEN flow ELSE "fallbackScan"
    /\ UNCHANGED <<disk, oldSnapshot, lastUpdateTime, snapshotCheckTimer, initialCheck>>

\* pythonProcess.on('close'): the update process exits. success: code 0 and a parsed
\* response with status success.
ProcClose(p, success) ==
    /\ p \in procs
    /\ p.running
    /\ ragUpdateInProgress' = FALSE
    /\ procs' = (procs \ {p}) \cup {Exited(p)}
    /\ IF success
       THEN /\ pendingChangedFiles' = {}
            /\ pendingDeletedFiles' = {}
            /\ Resolved(p)
            /\ lastEvent' = [type |-> "saved", why |-> "updateSucceeded", by |-> p.waiter]
       ELSE /\ UNCHANGED <<pendingChangedFiles, pendingDeletedFiles>>
            /\ Rejected(p)
            /\ lastEvent' = [type |-> "updateFailed", by |-> p.waiter]
    /\ UNCHANGED <<now, ws, edits, ragInitializationInProgress, catchUp, checks, due>>
    /\ UNCHANGED othersExt

\* The 5-minute timer of an updateRAG call fires: kill the process (it is gone at
\* once), reset ragUpdateInProgress, reject (no effect on a settled promise).
ProcTimeout(p) ==
    /\ p \in procs
    /\ now >= p.id + UpdateTimeout
    /\ procs' = procs \ {p}
    /\ ragUpdateInProgress' = FALSE
    /\ IF p.running
       THEN /\ Rejected(p)
            /\ lastEvent' = [type |-> "updateFailed", by |-> p.waiter]
       ELSE /\ UNCHANGED <<disk, oldSnapshot, lastUpdateTime, snapshotCheckTimer,
                           initialCheck, flow>>
            /\ lastEvent' = Event("staleTimeout")
    /\ UNCHANGED <<now, ws, edits, ragInitializationInProgress, pendingChangedFiles,
                   pendingDeletedFiles, catchUp, checks, due>>
    /\ UNCHANGED othersExt

\* The subscriptions are disposed (the extension deactivates): the dispose callback
\* clears the interval timer. Nothing else is cancelled, and the extension host may go
\* on running for any length of time. The update processes in flight are marked
\* (observation only).
Dispose ==
    /\ flow = "watching"
    /\ flow' = "disposed"
    /\ snapshotCheckTimer' = {}
    /\ due' = FALSE
    /\ procs' = {[p EXCEPT !.cancelled = p.running] : p \in procs}
    /\ lastEvent' = Event("disposed")
    /\ UNCHANGED <<now, ws, edits, disk, ragInitializationInProgress, ragUpdateInProgress,
                   pendingChangedFiles, pendingDeletedFiles, lastUpdateTime, catchUp,
                   initialCheck, oldSnapshot, checks>>
    /\ UNCHANGED othersExt

\* One tick passes. Timers that are due run first, and createSnapshot returns within
\* the tick it was started in.
Tick ==
    /\ now < MaxTime
    /\ flow \in {"catchUpUpdate", "watching", "disposed"}
    /\ ~due
    /\ initialCheck # {now}
    /\ checks = {}
    /\ \A p \in procs : now < p.id + UpdateTimeout
    /\ now' = now + 1
    /\ due' = \E armed \in snapshotCheckTimer : (now' - armed) % UpdateInterval = 0
    /\ lastEvent' = Event("tick")
    /\ UNCHANGED <<ws, edits, disk, ragInitializationInProgress, ragUpdateInProgress,
                   pendingChangedFiles, pendingDeletedFiles, lastUpdateTime, flow, catchUp,
                   snapshotCheckTimer, initialCheck, oldSnapshot, checks, procs>>
    /\ UNCHANGED othersExt

----------------------------------------------------------------------------
(* Specifications *)

\* The extension is not running.
IdleExt ==
    /\ now = 0
    /\ ws = [f \in Files |-> NoFile]
    /\ edits = 0
    /\ disk = NoSnapshot
    /\ ragInitializationInProgress = FALSE
    /\ ragUpdateInProgress = FALSE
    /\ pendingChangedFiles = {}
    /\ pendingDeletedFiles = {}
    /\ lastUpdateTime = 0
    /\ flow = "idle"
    /\ catchUp = NoSnapshot
    /\ snapshotCheckTimer = {}
    /\ initialCheck = {}
    /\ oldSnapshot = NoSnapshot
    /\ checks = {}
    /\ procs = {}
    /\ due = FALSE
    /\ lastEvent = Event("idle")

\* compareSnapshots is not called.
IdleDiff == cmpOld = NoSnapshot /\ cmpNew = NoSnapshot /\ cmpResult = NoResult

\* The file-watcher variant is not running.
IdleWatch ==
    /\ fileWatcher = FALSE
    /\ fileChangeDebounceTimer = {}
    /\ watchUpdateInProgress = FALSE
    /\ watchChangedFiles = {}
    /\ watchDeletedFiles = {}
    /\ watchProcs = {}
    /\ watchNow = 0
    /\ notifications = 0
    /\ burst = {}
    /\ watchEvent = Event("idle")

\* No chat request is made.
IdleChat == chatRequests = 0 /\ chatRunning = 0 /\ chatResolved = 0 /\ chatRejected = 0

\* SpecInterval: the update interval and the gate of the periodic check: not used.
IdleIv == envFile = <<>> /\ ivTimer = {} /\ ivNow = 0 /\ ivSetupAt = 0 /\ ivFires = 0 /\ ivInitialPending = FALSE /\ ivLastUpdateTime = 0 /\ ivEvent = [type |-> "none"]

\* SpecPath: getWorkspaceStoragePath: not used.
IdlePath == pathWorkspaceDirs = <<>> /\ pathExtensionPath = <<>> /\ pathResult = NoResult

\* SpecRetrieve: retrieval over the three stores: not used.
IdleRetrieve == storeSizes = <<>> /\ initialCandidates = 0 /\ rerankTopN = 0 /\ enableRerank = FALSE /\ retrieved = NoResult

\* SpecFolders: initialization and updates when workspace folders are added: not used.
IdleFolders == wfHandlers = <<>> /\ wfInitializationInProgress = FALSE /\ wfInitProcs = {} /\ wfUpdateInProgress = FALSE /\ wfPendingChanged = {} /\ wfPendingDeleted = {} /\ wfUpdateProcs = {} /\ wfChecker = FALSE

\* SpecStore: snapshot.json written by saveSnapshot and read by loadSnapshot: not used.
IdleStore == stFile = <<>> /\ stSnapshot = NoSnapshot /\ stNow = 0 /\ stLoaded = NoResult /\ stUpdateStarted = FALSE /\ stPhase = "idle"

\* SpecStream: callPythonAI reading the standard output of the Python process: not used.
IdleStream == pyBytes = <<>> /\ pyPos = 0 /\ buffer = <<>> /\ forwarded = <<>> /\ finalMessage = "" /\ chatPromise = [state |-> "none"]

\* SpecHistory: chatHistory under sendMessage and clearChat: not used.
IdleHistory == chatHistory = <<>> /\ chatCalls = 0 /\ chatInFlight = {} /\ chatCleared = {} /\ chatClears = 0

\* SpecPatch: applyPatchToText: not used.
IdlePatch == patchText = <<>> /\ patchContent = <<>> /\ patchResult = NoResult

\* SpecButtons: the Accept/Reject buttons of a patch: not used.
IdleButtons == cpCurrentPatchSessionId = 0 /\ cpHandlers = <<>> /\ cpNow = 1 /\ cpPosted = <<>> /\ wvCurrentPatchSessionId = 0 /\ wvShown = FALSE /\ wvClicks = 0

\* SpecConv: useConversation, historical replay and live event stream: not used.
IdleConv == cvLog = 0 /\ eventsRef = <<>> /\ cvAt = "start" /\ historicalEvents = <<>> /\ isCompleted = FALSE /\ replayNext = 1 /\ replayOpen = FALSE /\ replayTimer = FALSE /\ liveOpen = FALSE /\ liveNext = 1 /\ cvReconnects = 0

\* createSnapshot is not called.
IdleSnap ==
    /\ snapWorkspace = [f \in Files |-> NoFile]
    /\ snapUnreadable = {}
    /\ snapResult = NoResult

\* The workspace as the previous session left it.
PrevWorkspace == [f \in Files |-> IF f = "a.py" THEN "h1" ELSE NoFile]

\* activate: initializeRAG has spawned the initialization process. snapshot.json is
\* missing, or is what the previous session saved.
Init ==
    /\ now = 2
    /\ ws = PrevWorkspace
    /\ edits = 0
    /\ disk \in {NoSnapshot, saveSnapshot(createSnapshot(ws, {}))}
    /\ ragInitializationInProgress = TRUE
    /\ ragUpdateInProgress = FALSE
    /\ pendingChangedFiles = {}
    /\ pendingDeletedFiles = {}
    /\ lastUpdateTime = 0
    /\ flow = "init"
    /\ catchUp = NoSnapshot
    /\ snapshotCheckTimer = {}
    /\ initialCheck = {}
    /\ oldSnapshot = NoSnapshot
    /\ checks = {}
    /\ procs = {}
    /\ due = FALSE
    /\ lastEvent = Event("activate")
    /\ IdleDiff
    /\ IdleWatch
    /\ IdleSnap
    /\ IdleChat
    /\ IdleIv
    /\ IdlePath
    /\ IdleRetrieve
    /\ IdleFolders
    /\ IdleStore
    /\ IdleStream
    /\ IdleHistory
    /\ IdlePatch
    /\ IdleButtons
    /\ IdleConv

Next ==
    \/ \E f \in Files, h \in Hashes \cup {NoFile} : Edit(f, h)
    \/ \E ok \in BOOLEAN : InitClose(ok)
    \/ \E u \in UnreadableSets, started \in BOOLEAN : CatchUpScanDone(u, started)
    \/ \E u \in UnreadableSets : InitialScanDone(u)
    \/ PeriodicCheck
    \/ InitialCheck
    \/ \E t \in checks, u \in UnreadableSets, started \in BOOLEAN : CheckScanDone(t, u, started)
    \/ \E p \in procs, success \in BOOLEAN : ProcClose(p, success)
    \/ \E p \in procs : ProcTimeout(p)
    \/ Dispose
    \/ Tick

Spec == Init /\ [][Next]_vars

InitDiff ==
    /\ cmpOld \in DiffOldSnapshots
    /\ cmpNew \in DiffNewSnapshots
    /\ cmpResult = NoResult
    /\ IdleExt
    /\ IdleWatch
    /\ IdleSnap
    /\ IdleChat
    /\ IdleIv
    /\ IdlePath
    /\ IdleRetrieve
    /\ IdleFolders
    /\ IdleStore
    /\ IdleStream
    /\ IdleHistory
    /\ IdlePatch
    /\ IdleButtons
    /\ IdleConv

NextDiff == Compare

SpecDiff == InitDiff /\ [][NextDiff]_vars

----------------------------------------------------------------------------
(* SpecWatch: the file-watcher variant of extension.ts                     *)
(*                                                                         *)
(* Two scales of time: the debounce timer counts half seconds; the clock   *)
(* of the update processes counts ticks of 75 s, and a tick passes only    *)
(* while no debounce timer is armed (an armed timer fires within 1 s).     *)

MaxNotifications == 4       \* notifications the file system delivers
MaxWatchTime == 5           \* the clock stops here
DebounceDelay == 2          \* setTimeout(..., 1000): two half seconds

NotificationKinds == {"change", "create", "delete"}

WatchProc(r) ==
    [id |-> watchNow, running |-> TRUE,
     changed_files |-> r.changed_files, deleted_files |-> r.deleted_files]

WatchExited(p) ==
    [id |-> p.id, running |-> FALSE, changed_files |-> {}, deleted_files |-> {}]

WatchRunning == {p \in watchProcs : p.running}

\* fileWatcher.onDidChange / onDidCreate / onDidDelete for a watched code file: add the
\* file to the pending sets, clear the debounce timer and arm it again.
Notify(kind, f) ==
    /\ fileWatcher
    /\ notifications < MaxNotifications
    /\ fileChangeDebounceTimer # {0}
    /\ notifications' = notifications + 1
    /\ IF kind = "delete"
       THEN /\ watchDeletedFiles' = watchDeletedFiles \cup {f}
            /\ watchChangedFiles' = watchChangedFiles \ {f}
       ELSE /\ watchChangedFiles' = watchChangedFiles \cup {f}
            /\ UNCHANGED watchDeletedFiles
    /\ fileChangeDebounceTimer' = {DebounceDelay}
    /\ burst' = burst \cup {f}
    /\ watchEvent' = [type |-> "notified", kind |-> kind]
    /\ UNCHANGED <<fileWatcher, watchUpdateInProgress, watchProcs, watchNow>>
    /\ UNCHANGED othersWatch

\* Half a second passes while the debounce timer is armed.
HalfSecond ==
    /\ \E n \in fileChangeDebounceTimer :
          /\ n > 0
          /\ fileChangeDebounceTimer' = {n - 1}
    /\ watchEvent' = Event("halfSecond")
    /\ UNCHANGED <<fileWatcher, watchUpdateInProgress, watchChangedFiles, watchDeletedFiles,
                   watchProcs, watchNow, notifications, burst>>
    /\ UNCHANGED othersWatch

\* The debounce timer fires: updateRAG(...).catch(...).
DebounceFire(started) ==
    /\ fileChangeDebounceTimer = {0}
    /\ fileChangeDebounceTimer' = {}
    /\ LET r == updateRAG(watchUpdateInProgress, watchChangedFiles, watchDeletedFiles, started)
       IN  /\ watchUpdateInProgress' = r.inProgress
           /\ watchChangedFiles' = r.pendingChanged
           /\ watchDeletedFiles' = r.pendingDeleted
           /\ watchProcs' = IF r.result = "spawned"
                            THEN watchProcs \cup {WatchProc(r)} ELSE watchProcs
           /\ watchEvent' = [type |-> "debounce", result |-> r.result]
    /\ burst' = {}
    /\ UNCHANGED <<fileWatcher, watchNow, notifications>>
    /\ UNCHANGED othersWatch

\* The update process closes: ragUpdateInProgress = false, resolve or reject. This
\* variant's handler leaves the pending sets alone.
WatchProcClose(p, success) ==
    /\ p \in WatchRunning
    /\ watchUpdateInProgress' = FALSE
    /\ watchProcs' = (watchProcs \ {p}) \cup {WatchExited(p)}
    /\ watchEvent' = Event(IF success THEN "updateSucceeded" ELSE "updateFailed")
    /\ UNCHANGED <<fileWatcher, fileChangeDebounceTimer, watchChangedFiles, watchDeletedFiles,
                   watchNow, notifications, burst>>
    /\ UNCHANGED othersWatch

\* The 5-minute timer of an updateRAG call fires.
WatchProcTimeout(p) ==
    /\ p \in watchProcs
    /\ watchNow >= p.id + UpdateTimeout
    /\ watchProcs' = watchProcs \ {p}
    /\ watchUpdateInProgress' = FALSE
    /\ watchEvent' = Event(IF p.running THEN "updateFailed" ELSE "staleTimeout")
    /\ UNCHANGED <<fileWatcher, fileChangeDebounceTimer, watchChangedFiles, watchDeletedFiles,
                   watchNow, notifications, burst>>
    /\ UNCHANGED othersWatch

\* The subscriptions are disposed: dispose the watcher and clear the debounce timer.
WatchDispose ==
    /\ fileWatcher
    /\ fileWatcher' = FALSE
    /\ fileChangeDebounceTimer' = {}
    /\ watchEvent' = Event("disposed")
    /\ UNCHANGED <<watchUpdateInProgress, watchChangedFiles, watchDeletedFiles, watchProcs,
                   watchNow, notifications, burst>>
    /\ UNCHANGED othersWatch

\* One tick of 75 s passes.
WatchTick ==
    /\ watchNow < MaxWatchTime
    /\ fileChangeDebounceTimer = {}
    /\ \A p \in watchProcs : watchNow < p.id + UpdateTimeout
    /\ watchNow' = watchNow + 1
    /\ watchEvent' = Event("tick")
    /\ UNCHANGED <<fileWatcher, fileChangeDebounceTimer, watchUpdateInProgress,
                   watchChangedFiles, watchDeletedFiles, watchProcs, notifications, burst>>
    /\ UNCHANGED othersWatch

\* initializeRAG has succeeded and setupFileWatcher has created the watcher.
InitWatch ==
    /\ fileWatcher = TRUE
    /\ fileChangeDebounceTimer = {}
    /\ watchUpdateInProgress = FALSE
    /\ watchChangedFiles = {}
    /\ watchDeletedFiles = {}
    /\ watchProcs = {}
    /\ watchNow = 0
    /\ notifications = 0
    /\ burst = {}
    /\ watchEvent = Event("setupFileWatcher")
    /\ IdleDiff
    /\ IdleExt
    /\ IdleSnap
    /\ IdleChat
    /\ IdleIv
    /\ IdlePath
    /\ IdleRetrieve
    /\ IdleFolders
    /\ IdleStore
    /\ IdleStream
    /\ IdleHistory
    /\ IdlePatch
    /\ IdleButtons
    /\ IdleConv

NextWatch ==
    \/ \E kind \in NotificationKinds, f \in Files : Notify(kind, f)
    \/ HalfSecond
    \/ \E started \in BOOLEAN : DebounceFire(started)
    \/ \E p \in watchProcs, success \in BOOLEAN : WatchProcClose(p, success)
    \/ \E p \in watchProcs : WatchProcTimeout(p)
    \/ WatchDispose
    \/ WatchTick

SpecWatch == InitWatch /\ [][NextWatch]_vars

----------------------------------------------------------------------------
(* SpecSnap: createSnapshot on every small workspace, with any of its files *)
(* unreadable                                                              *)

CreateSnapshot ==
    /\ snapResult = NoResult
    /\ snapResult' = createSnapshot(snapWorkspace, snapUnreadable)
    /\ UNCHANGED <<snapWorkspace, snapUnreadable>>
    /\ UNCHANGED othersSnap

InitSnap ==
    /\ snapWorkspace \in [Files -> DiffHashes \cup {NoFile}]
    /\ snapUnreadable \in SUBSET Files
    /\ snapResult = NoResult
    /\ IdleDiff
    /\ IdleExt
    /\ IdleWatch
    /\ IdleChat
    /\ IdleIv
    /\ IdlePath
    /\ IdleRetrieve
    /\ IdleFolders
    /\ IdleStore
    /\ IdleStream
    /\ IdleHistory
    /\ IdlePatch
    /\ IdleButtons
    /\ IdleConv

NextSnap == CreateSnapshot

SpecSnap == InitSnap /\ [][NextSnap]_vars

----------------------------------------------------------------------------
(* SpecChat: chat requests (ChatPanel.ts) while the file watcher triggers   *)
(* updates of the index. The ai_service process is not part of the sources: *)
(* its retrieval is modelled from the specification.                        *)

MaxChats == 2               \* chat requests the user makes

\* Retrieval in the ai_service process takes the retrieve mutex only, which is
\* independent of the build mutex: it can finish whether or not an update is running.
RetrievalCanFinish(updateInProgress) == TRUE

\* A sendMessage that does not start while an update is in flight (not the code's).
ChatSend_Gated(scriptFound) ==
    /\ ~watchUpdateInProgress
    /\ chatRequests < MaxChats
    /\ chatRequests' = chatRequests + 1
    /\ IF scriptFound
       THEN chatRunning' = chatRunning + 1 /\ UNCHANGED chatRejected
       ELSE chatRejected' = chatRejected + 1 /\ UNCHANGED chatRunning
    /\ UNCHANGED chatResolved
    /\ UNCHANGED <<watchVars, othersChat>>

\* ChatPanel.sendMessage -> callPythonAI: spawn the ai_service process and write the
\* request to it. scriptFound is FALSE when the process cannot run the script: it
\* emits 'error' or exits with a non-zero code and the promise is rejected.
ChatSend(scriptFound) ==
    /\ chatRequests < MaxChats
    /\ chatRequests' = chatRequests + 1
    /\ IF scriptFound
       THEN chatRunning' = chatRunning + 1 /\ UNCHANGED chatRejected
       ELSE chatRejected' = chatRejected + 1 /\ UNCHANGED chatRunning
    /\ UNCHANGED chatResolved
    /\ UNCHANGED <<watchVars, othersChat>>

\* pythonProcess.on('close') of a chat request: the service has retrieved and answered,
\* exits with code 0, and the promise resolves with the final message.
ChatClose ==
    /\ chatRunning > 0
    /\ RetrievalCanFinish(watchUpdateInProgress)
    /\ chatRunning' = chatRunning - 1
    /\ chatResolved' = chatResolved + 1
    /\ UNCHANGED <<chatRequests, chatRejected>>
    /\ UNCHANGED <<watchVars, othersChat>>

InitChat ==
    /\ IdleChat
    /\ fileWatcher = TRUE
    /\ fileChangeDebounceTimer = {}
    /\ watchUpdateInProgress = FALSE
    /\ watchChangedFiles = {}
    /\ watchDeletedFiles = {}
    /\ watchProcs = {}
    /\ watchNow = 0
    /\ notifications = 0
    /\ burst = {}
    /\ watchEvent = Event("setupFileWatcher")
    /\ IdleDiff
    /\ IdleExt
    /\ IdleSnap
    /\ IdleIv
    /\ IdlePath
    /\ IdleRetrieve
    /\ IdleFolders
    /\ IdleStore
    /\ IdleStream
    /\ IdleHistory
    /\ IdlePatch
    /\ IdleButtons
    /\ IdleConv

NextChat ==
    \/ \E kind \in NotificationKinds, f \in Files : Notify(kind, f)
    \/ HalfSecond
    \/ \E started \in BOOLEAN : DebounceFire(started)
    \/ \E p \in watchProcs, success \in BOOLEAN : WatchProcClose(p, success)
    \/ \E scriptFound \in BOOLEAN : ChatSend(scriptFound)
    \/ ChatClose

SpecChat == InitChat /\ [][NextChat]_vars

----------------------------------------------------------------------------
(* SpecInterval: getUpdateIntervalSeconds, the period of the setInterval    *)
(* timer and the gate at the head of checkSnapshotAndUpdate. Time is in     *)
(* seconds and jumps from one timer event to the next.                      *)

DefaultIntervalSeconds == 60    \* return 60 of getUpdateIntervalSeconds
InitialCheckSeconds == 2        \* setTimeout(checkSnapshotAndUpdate, 2000)
MaxLineLen == 4                 \* characters of a line of python/.env
MaxFires == 3                   \* times the timer fires

\* The characters of a line; "K" stands for the text RAG_UPDATE_INTERVAL_SECONDS.
EnvChars == {"K", "=", " ", "3", "0", "#"}
Digits == {"3", "0"}
DigitValue(c) == IF c = "3" THEN 3 ELSE 0

EnvLinesOfLen(n) == [1..n -> EnvChars]
EnvLines == UNION {EnvLinesOfLen(n) : n \in 0..MaxLineLen}
ShortLines == {l \in EnvLinesOfLen(3) : l[1] = "K"}

\* python/.env: missing, unreadable, one line, or two short lines.
NoEnv == [exists |-> FALSE, readable |-> FALSE, lines |-> <<>>]
EnvFiles ==
    {NoEnv}
    \cup {[exists |-> TRUE, readable |-> FALSE, lines |-> <<>>]}
    \cup {[exists |-> TRUE, readable |-> TRUE, lines |-> <<l>>] : l \in EnvLines}
    \cup {[exists |-> TRUE, readable |-> TRUE, lines |-> <<l1, l2>>] : l1 \in ShortLines, l2 \in ShortLines}

RECURSIVE SkipSpaces(_, _)
\* \s* from position i on: the first position that is not white space.
SkipSpaces(line, i) ==
    IF i <= Len(line) /\ line[i] = " " THEN SkipSpaces(line, i + 1) ELSE i

RECURSIVE SkipDigits(_, _)
\* \d* from position i on: the first position that is not a digit.
SkipDigits(line, i) ==
    IF i <= Len(line) /\ line[i] \in Digits THEN SkipDigits(line, i + 1) ELSE i

RECURSIVE parseInt(_)
\* parseInt(match[1], 10)
parseInt(ds) ==
    IF ds = <<>> THEN 0
    ELSE 10 * parseInt(SubSeq(ds, 1, Len(ds) - 1)) + DigitValue(ds[Len(ds)])

\* A match that does not require the line to end after the number (not the code's).
LineMatch_Unanchored(line) ==
    LET k == SkipSpaces(line, 1)
        e == SkipSpaces(line, k + 1)
        d == SkipSpaces(line, e + 1)
        z == SkipDigits(line, d)
    IN  IF /\ k <= Len(line) /\ line[k] = "K"
           /\ e <= Len(line) /\ line[e] = "="
           /\ z > d
        THEN SubSeq(line, d, z - 1)
        ELSE <<>>

\* line.match(/^\s*RAG_UPDATE_INTERVAL_SECONDS\s*=\s*(\d+)\s*$/): the digits of
\* group 1, or <<>> when the line does not match.
LineMatch(line) ==
    LET k == SkipSpaces(line, 1)
        e == SkipSpaces(line, k + 1)
        d == SkipSpaces(line, e + 1)
        z == SkipDigits(line, d)
        end == SkipSpaces(line, z)
    IN  IF /\ k <= Len(line) /\ line[k] = "K"
           /\ e <= Len(line) /\ line[e] = "="
           /\ z > d
           /\ end = Len(line) + 1
        THEN SubSeq(line, d, z - 1)
        ELSE <<>>

RECURSIVE FirstMatch(_, _)
\* for (const line of lines): the first line that matches.
FirstMatch(lines, i) ==
    IF i > Len(lines) THEN <<>>
    ELSE IF LineMatch(lines[i]) # <<>> THEN LineMatch(lines[i])
    ELSE FirstMatch(lines, i + 1)

getUpdateIntervalSeconds(env) ==
    IF ~env.exists THEN DefaultIntervalSeconds
    ELSE IF env.readable /\ FirstMatch(env.lines, 1) # <<>>
         THEN parseInt(FirstMatch(env.lines, 1))
         ELSE DefaultIntervalSeconds

Max(a, b) == IF a >= b THEN a ELSE b
IvPeriod == CHOOSE p \in ivTimer : TRUE
NextFire == ivSetupAt + (ivFires + 1) * IvPeriod

\* setupSnapshotChecker: setInterval with the interval read now, and the one-shot
\* setTimeout.
IvSetup ==
    /\ ivTimer = {}
    /\ ivTimer' = {getUpdateIntervalSeconds(envFile)}
    /\ ivSetupAt' = ivNow
    /\ ivInitialPending' = TRUE
    /\ ivEvent' = [type |-> "setup"]
    /\ UNCHANGED <<envFile, ivNow, ivFires, ivLastUpdateTime>>
    /\ UNCHANGED othersIv

\* checkSnapshotAndUpdate at time at: read the interval again, and scan only when it
\* has passed since lastUpdateTime. ok: the pass ends in one of the branches that set
\* lastUpdateTime (first snapshot, no changes, update succeeded).
checkSnapshotAndUpdate(type, at, ok) ==
    LET updateIntervalSeconds == getUpdateIntervalSeconds(envFile)
        timeSinceLastUpdate ==
            IF ivLastUpdateTime > 0 THEN at - ivLastUpdateTime ELSE updateIntervalSeconds
        scanned == timeSinceLastUpdate >= updateIntervalSeconds
    IN  /\ ivNow' = at
        /\ ivLastUpdateTime' = IF scanned /\ ok THEN at ELSE ivLastUpdateTime
        /\ ivEvent' = [type |-> type, at |-> at, last |-> ivLastUpdateTime,
                       scanned |-> scanned]

\* The setInterval timer fires.
IvTimerFire(ok) ==
    /\ ivTimer # {}
    /\ ivFires < MaxFires
    /\ ~ivInitialPending \/ NextFire <= ivSetupAt + InitialCheckSeconds
    /\ ivFires' = ivFires + 1
    /\ checkSnapshotAndUpdate("interval", Max(ivNow, NextFire), ok)
    /\ UNCHANGED <<envFile, ivTimer, ivSetupAt, ivInitialPending>>
    /\ UNCHANGED othersIv

\* The setTimeout(checkSnapshotAndUpdate, 2000) fires.
IvInitialCheck(ok) ==
    /\ ivInitialPending
    /\ NextFire > ivSetupAt + InitialCheckSeconds \/ IvPeriod = 0
    /\ ivInitialPending' = FALSE
    /\ checkSnapshotAndUpdate("initial", Max(ivNow, ivSetupAt + InitialCheckSeconds), ok)
    /\ UNCHANGED <<envFile, ivTimer, ivSetupAt, ivFires>>
    /\ UNCHANGED othersIv

InitInterval ==
    /\ envFile \in EnvFiles
    /\ ivTimer = {}
    /\ ivNow = 1
    /\ ivSetupAt = 0
    /\ ivFires = 0
    /\ ivInitialPending = FALSE
    /\ ivLastUpdateTime \in {0, 1}
    /\ ivEvent = [type |-> "none"]
    /\ IdleDiff
    /\ IdleExt
    /\ IdleWatch
    /\ IdleSnap
    /\ IdleChat
    /\ IdlePath
    /\ IdleRetrieve
    /\ IdleFolders
    /\ IdleStore
    /\ IdleStream
    /\ IdleHistory
    /\ IdlePatch
    /\ IdleButtons
    /\ IdleConv

NextInterval ==
    \/ IvSetup
    \/ \E ok \in BOOLEAN : IvTimerFire(ok)
    \/ \E ok \in BOOLEAN : IvInitialCheck(ok)

SpecInterval == InitInterval /\ [][NextInterval]_vars

----------------------------------------------------------------------------
(* SpecPath: getWorkspaceStoragePath (snapshot.ts) for two workspace roots. *)
(* A path is the sequence of its segments below the root directory.         *)

MaxSegments == 2            \* segments of a workspaceDir argument

DirNames == {"ws3600495", "ws11203139"}
PathSegments == DirNames \cup {".", ".."}
WorkspaceDirs == UNION {[1..n -> PathSegments] : n \in 0..MaxSegments}
ExtensionPaths == {<<"opt", "ext">>, <<"home", "ext">>}

RECURSIVE resolve(_)
\* path.resolve of an absolute path: "." is dropped, ".." removes the segment before
\* it (the root directory has no parent).
resolve(p) ==
    IF p = <<>> THEN <<>>
    ELSE LET front == resolve(SubSeq(p, 1, Len(p) - 1))
             last == p[Len(p)]
         IN  IF last = "." THEN front
             ELSE IF last = ".." THEN SubSeq(front, 1, Len(front) - 1)
             ELSE Append(front, last)

\* The first 12 hexadecimal digits of the MD5 digest of the resolved path, for
\* the paths over DirNames (computed with MD5 itself).
Md5Hex12 ==
    (<<>> :> "6666cd76f969") @@
    (<<"ws3600495">> :> "2b46f36af076") @@
    (<<"ws11203139">> :> "2b46f36af076") @@
    (<<"ws3600495", "ws3600495">> :> "5df7b4c4cca4") @@
    (<<"ws3600495", "ws11203139">> :> "4cda7f412dca") @@
    (<<"ws11203139", "ws3600495">> :> "5df13266809b") @@
    (<<"ws11203139", "ws11203139">> :> "723342e7394c") @@
    (<<"ws3600495", "ws3600495", "ws3600495">> :> "d6f2396b9477") @@
    (<<"ws3600495", "ws3600495", "ws11203139">> :> "66bd0fccf67a") @@
    (<<"ws3600495", "ws11203139", "ws3600495">> :> "5a3f1f4027a5") @@
    (<<"ws3600495", "ws11203139", "ws11203139">> :> "2bc6ad654899") @@
    (<<"ws11203139", "ws3600495", "ws3600495">> :> "10844def7919") @@
    (<<"ws11203139", "ws3600495", "ws11203139">> :> "f1d980eca921") @@
    (<<"ws11203139", "ws11203139", "ws3600495">> :> "184dc16470ba") @@
    (<<"ws11203139", "ws11203139", "ws11203139">> :> "cf72be137174")

\* crypto.createHash('md5').update(workspacePath).digest('hex').substring(0, 12)
hash(workspacePath) == Md5Hex12[workspacePath]

getWorkspaceStoragePath(workspaceDir, extensionPath) ==
    LET workspacePath == resolve(workspaceDir)
        pythonDir == Append(extensionPath, "python")
        ragStoreDir == Append(pythonDir, ".rag_store")
    IN  [dir |-> ragStoreDir, name |-> <<"workspace_", hash(workspacePath)>>]

\* The extension asks for the storage directories of two workspaces.
GetStoragePaths ==
    /\ pathResult = NoResult
    /\ pathResult' = <<getWorkspaceStoragePath(pathWorkspaceDirs[1], pathExtensionPath),
                       getWorkspaceStoragePath(pathWorkspaceDirs[2], pathExtensionPath)>>
    /\ UNCHANGED <<pathWorkspaceDirs, pathExtensionPath>>
    /\ UNCHANGED othersPath

InitPath ==
    /\ pathWorkspaceDirs \in WorkspaceDirs \X WorkspaceDirs
    /\ pathExtensionPath \in ExtensionPaths
    /\ pathResult = NoResult
    /\ IdleDiff
    /\ IdleExt
    /\ IdleWatch
    /\ IdleSnap
    /\ IdleChat
    /\ IdleIv
    /\ IdleRetrieve
    /\ IdleFolders
    /\ IdleStore
    /\ IdleStream
    /\ IdleHistory
    /\ IdlePatch
    /\ IdleButtons
    /\ IdleConv

NextPath == GetStoragePaths

SpecPath == InitPath /\ [][NextPath]_vars

----------------------------------------------------------------------------
(* SpecRetrieve: retrieve over the function, class and file stores. The     *)
(* retrieval code is not part of the sources; it is modelled from the       *)
(* specification. A unit of a store is named by its similarity rank for the *)
(* query (1 is the most similar).                                           *)

MaxUnits == 3               \* units in a store
MaxCandidates == 3          \* largest initialCandidates and rerankTopN

StoreKinds == <<"function", "class", "file">>
Min(a, b) == IF a <= b THEN a ELSE b

\* The orders a reranker can put the units in.
Relevances == {r \in [1..MaxUnits -> 1..MaxUnits] : \A i, j \in 1..MaxUnits : r[i] = r[j] => i = j}

\* Top-k similarity search in a store of size units.
similaritySearch(size, k) == [i \in 1..Min(size, k) |-> i]

\* Truncation to the first n elements.
Truncate(list, n) == SubSeq(list, 1, Min(n, Len(list)))

\* A reranker that reorders the candidates and keeps all of them (not the specified one).
rerank_KeepsAll(candidates, relevance, topN) ==
    SelectSeq(relevance, LAMBDA u : u \in Range(candidates))

\* Rerank the candidates of one store down to topN by relevance.
rerank(candidates, relevance, topN) ==
    Truncate(SelectSeq(relevance, LAMBDA u : u \in Range(candidates)), topN)

\* The list of one store: candidates, then rerank or truncate by similarity.
StoreResults(kind, size, k1, rerankOn, k2, relevance) ==
    LET candidates == similaritySearch(size, k1)
        kept == IF rerankOn THEN rerank(candidates, relevance, k2) ELSE Truncate(candidates, k2)
    IN  [i \in 1..Len(kept) |-> [kind |-> kind, unit |-> kept[i]]]

\* retrieve: the lists of the three stores concatenated in store order.
retrieve(sizes, k1, rerankOn, k2, relevance) ==
    StoreResults(StoreKinds[1], sizes[1], k1, rerankOn, k2, relevance)
    \o StoreResults(StoreKinds[2], sizes[2], k1, rerankOn, k2, relevance)
    \o StoreResults(StoreKinds[3], sizes[3], k1, rerankOn, k2, relevance)

\* One call of retrieve; relevance is the order the reranker gives the units.
Retrieve(relevance) ==
    /\ retrieved = NoResult
    /\ retrieved' = [results |-> retrieve(storeSizes, initialCandidates, enableRerank,
                                           rerankTopN, relevance)]
    /\ UNCHANGED <<storeSizes, initialCandidates, rerankTopN, enableRerank>>
    /\ UNCHANGED othersRetrieve

InitRetrieve ==
    /\ storeSizes \in [1..3 -> 0..MaxUnits]
    /\ initialCandidates \in 1..MaxCandidates
    /\ rerankTopN \in 1..MaxCandidates
    /\ enableRerank \in BOOLEAN
    /\ retrieved = NoResult
    /\ IdleDiff
    /\ IdleExt
    /\ IdleWatch
    /\ IdleSnap
    /\ IdleChat
    /\ IdleIv
    /\ IdlePath
    /\ IdleFolders
    /\ IdleStore
    /\ IdleStream
    /\ IdleHistory
    /\ IdlePatch
    /\ IdleButtons
    /\ IdleConv

NextRetrieve == \E relevance \in Relevances : Retrieve(relevance)

SpecRetrieve == InitRetrieve /\ [][NextRetrieve]_vars

----------------------------------------------------------------------------
(* SpecFolders: activate.initializeRAGForWorkspace (handler 1) and the      *)
(* onDidChangeWorkspaceFolders handler (one run per added folder), which    *)
(* share the module-level flags and pending sets. Snapshot contents are     *)
(* reduced to the outcome of the comparison.                                *)

MaxHandlers == 3            \* handler 1 is activation, the others are added folders

Handlers == 1..MaxHandlers

\* initializeRAG is called: it returns at once when an initialization is in progress,
\* otherwise it sets the flag and spawns the initialization process.
HandlerStart(h) ==
    /\ wfHandlers[h] = "notStarted"
    /\ h = 1 \/ wfHandlers[1] # "notStarted"
    /\ IF wfInitializationInProgress
       THEN /\ wfHandlers' = [wfHandlers EXCEPT ![h] = "catchUp"]
            /\ UNCHANGED <<wfInitializationInProgress, wfInitProcs>>
       ELSE /\ wfInitializationInProgress' = TRUE
            /\ wfInitProcs' = wfInitProcs \cup {h}
            /\ wfHandlers' = [wfHandlers EXCEPT ![h] = "awaitInit"]
    /\ UNCHANGED <<wfUpdateInProgress, wfPendingChanged, wfPendingDeleted, wfUpdateProcs,
                   wfChecker>>
    /\ UNCHANGED othersFolders

\* The initialization process ends ('close', 'error', or killed by the 5-minute
\* timer): the flag is reset and the promise resolves or rejects.
FolderInitClose(h, success) ==
    /\ h \in wfInitProcs
    /\ wfInitProcs' = wfInitProcs \ {h}
    /\ wfInitializationInProgress' = FALSE
    /\ wfHandlers' = [wfHandlers EXCEPT ![h] = IF success THEN "catchUp" ELSE "failed"]
    /\ UNCHANGED <<wfUpdateInProgress, wfPendingChanged, wfPendingDeleted, wfUpdateProcs,
                   wfChecker>>
    /\ UNCHANGED othersFolders

\* The pending sets get the changes and updateRAG is called for waiter.
FolderUpdate(waiter, allChanged, deleted, started) ==
    LET r == updateRAG(wfUpdateInProgress, wfPendingChanged \cup allChanged,
                       wfPendingDeleted \cup deleted, started)
    IN  /\ wfUpdateInProgress' = r.inProgress
        /\ wfPendingChanged' = r.pendingChanged
        /\ wfPendingDeleted' = r.pendingDeleted
        /\ wfUpdateProcs' = IF r.result = "spawned"
                            THEN wfUpdateProcs \cup {[waiter |-> waiter]}
                            ELSE wfUpdateProcs

\* After initializeRAG has returned: compare the persisted snapshot with a new one and
\* trigger updateRAG for the changes made while the editor was closed.
FolderCatchUp(h, allChanged, deleted, started) ==
    /\ wfHandlers[h] = "catchUp"
    /\ IF allChanged \cup deleted # {}
       THEN /\ FolderUpdate(h, allChanged, deleted, started)
            /\ wfHandlers' = [wfHandlers EXCEPT ![h] =
                    IF [waiter |-> h] \in wfUpdateProcs' THEN "awaitUpdate" ELSE "setup"]
       ELSE /\ wfHandlers' = [wfHandlers EXCEPT ![h] = "setup"]
            /\ UNCHANGED <<wfUpdateInProgress, wfPendingChanged, wfPendingDeleted,
                           wfUpdateProcs>>
    /\ UNCHANGED <<wfInitializationInProgress, wfInitProcs, wfChecker>>
    /\ UNCHANGED othersFolders

\* An update process ends: the flag is reset, on success the pending sets are cleared,
\* and a waiting handler goes on to set up the checker.
FolderUpdateClose(p, success) ==
    /\ p \in wfUpdateProcs
    /\ wfUpdateProcs' = wfUpdateProcs \ {p}
    /\ wfUpdateInProgress' = FALSE
    /\ wfPendingChanged' = IF success THEN {} ELSE wfPendingChanged
    /\ wfPendingDeleted' = IF success THEN {} ELSE wfPendingDeleted
    /\ wfHandlers' = IF p.waiter \in Handlers
                     THEN [wfHandlers EXCEPT ![p.waiter] = "setup"]
                     ELSE wfHandlers
    /\ UNCHANGED <<wfInitializationInProgress, wfInitProcs, wfChecker>>
    /\ UNCHANGED othersFolders

\* setupSnapshotChecker at the end of the handler.
FolderSetup(h) ==
    /\ wfHandlers[h] = "setup"
    /\ wfHandlers' = [wfHandlers EXCEPT ![h] = "watching"]
    /\ wfChecker' = TRUE
    /\ UNCHANGED <<wfInitializationInProgress, wfInitProcs, wfUpdateInProgress,
                   wfPendingChanged, wfPendingDeleted, wfUpdateProcs>>
    /\ UNCHANGED othersFolders

\* A periodic check finds changes and triggers updateRAG (waiter 0: the check itself).
FolderPeriodicCheck(allChanged, deleted, started) ==
    /\ wfChecker
    /\ allChanged \cup deleted # {}
    /\ FolderUpdate(0, allChanged, deleted, started)
    /\ UNCHANGED <<wfHandlers, wfInitializationInProgress, wfInitProcs, wfChecker>>
    /\ UNCHANGED othersFolders

InitFolders ==
    /\ wfHandlers = [h \in Handlers |-> "notStarted"]
    /\ wfInitializationInProgress = FALSE
    /\ wfInitProcs = {}
    /\ wfUpdateInProgress = FALSE
    /\ wfPendingChanged = {}
    /\ wfPendingDeleted = {}
    /\ wfUpdateProcs = {}
    /\ wfChecker = FALSE
    /\ IdleDiff
    /\ IdleExt
    /\ IdleWatch
    /\ IdleSnap
    /\ IdleChat
    /\ IdleIv
    /\ IdlePath
    /\ IdleRetrieve
    /\ IdleStore
    /\ IdleStream
    /\ IdleHistory
    /\ IdlePatch
    /\ IdleButtons
    /\ IdleConv

NextFolders ==
    \/ \E h \in Handlers : HandlerStart(h)
    \/ \E h \in Handlers, success \in BOOLEAN : FolderInitClose(h, success)
    \/ \E h \in Handlers, allChanged \in SUBSET Files, deleted \in SUBSET Files,
          started \in BOOLEAN : FolderCatchUp(h, allChanged, deleted, started)
    \/ \E p \in wfUpdateProcs, success \in BOOLEAN : FolderUpdateClose(p, success)
    \/ \E h \in Handlers : FolderSetup(h)
    \/ \E allChanged \in SUBSET Files, deleted \in SUBSET Files, started \in BOOLEAN :
          FolderPeriodicCheck(allChanged, deleted, started)

SpecFolders == InitFolders /\ [][NextFolders]_vars

----------------------------------------------------------------------------
(* SpecStore: saveSnapshot and loadSnapshot (snapshot.ts) with the JSON     *)
(* file between them, and the first pass of checkSnapshotAndUpdate, whose   *)
(* closure holds no old snapshot yet. The mtime of a FileSnapshot is {}     *)
(* when undefined (stat failed), else {m}.                                  *)

StorePaths == {"a.py", "src/b.ts"}
StoreHashes == {"h1", "h2"}
StoreMtimes == {{}, {10}}
StoreEntries == [path : StorePaths, hash : StoreHashes, mtime : StoreMtimes]
StoreFileMaps ==
    {s \in UNION {[1..n -> StoreEntries] : n \in 0..Cardinality(StorePaths)} :
        \A i, j \in 1..Len(s) : i # j => s[i].path # s[j].path}
StoreSnapshots == [files : StoreFileMaps, timestamp : {100, 200}]

\* snapshot.json before the program touches it.
StoreFiles ==
    {[kind |-> "missing"], [kind |-> "garbage"], [kind |-> "null"], [kind |-> "empty"]}

Thrown == [threw |-> TRUE]

\* A serialization that never writes mtime (not the code's).
JsonFileSnapshot_NoMtime(fileSnapshot) ==
    [path |-> fileSnapshot.path, hash |-> fileSnapshot.hash]

\* JSON.stringify of a FileSnapshot: a property whose value is undefined is left out.
JsonFileSnapshot(fileSnapshot) ==
    IF fileSnapshot.mtime = {}
    THEN [path |-> fileSnapshot.path, hash |-> fileSnapshot.hash]
    ELSE [path |-> fileSnapshot.path, hash |-> fileSnapshot.hash,
          mtime |-> CHOOSE m \in fileSnapshot.mtime : TRUE]

\* snapshot.files.forEach(... filesObj[relativePath] = fileSnapshot): the own properties
\* of filesObj in insertion order; assigning to "__proto__" creates no own property.
FilesObj(files) ==
    LET own == SelectSeq(files, LAMBDA e : e.path # "__proto__")
    IN  [i \in 1..Len(own) |-> [key |-> own[i].path, value |-> JsonFileSnapshot(own[i])]]

\* saveSnapshot: the JSON value written to snapshot.json.
saveSnapshotFile(snapshot) ==
    [kind |-> "json",
     data |-> [timestamp |-> snapshot.timestamp, files |-> FilesObj(snapshot.files)]]

\* files.set(relativePath, fileSnapshot as FileSnapshot): reading mtime of an object
\* without that property gives undefined.
ReadFileSnapshot(entry) ==
    [path |-> entry.key, hash |-> entry.value.hash,
     mtime |-> IF "mtime" \in DOMAIN entry.value THEN {entry.value.mtime} ELSE {}]

\* A loadSnapshot that lets the parse error escape (not the code's).
loadSnapshotFile_Throws(file, dateNow) ==
    IF file.kind = "missing" THEN NoSnapshot
    ELSE IF file.kind \in {"garbage", "null"} THEN Thrown
    ELSE IF file.kind = "empty" THEN [files |-> <<>>, timestamp |-> dateNow]
    ELSE [files |-> [i \in 1..Len(file.data.files) |-> ReadFileSnapshot(file.data.files[i])],
          timestamp |-> IF file.data.timestamp = 0 THEN dateNow ELSE file.data.timestamp]

\* loadSnapshot: null when the file is missing; null from the catch block when
\* JSON.parse throws (garbage) or the value is null (reading .files throws); a Snapshot
\* otherwise, with Date.now() for a missing or zero timestamp.
loadSnapshotFile(file, dateNow) ==
    IF file.kind = "missing" THEN NoSnapshot
    ELSE IF file.kind \in {"garbage", "null"} THEN NoSnapshot
    ELSE IF file.kind = "empty" THEN [files |-> <<>>, timestamp |-> dateNow]
    ELSE [files |-> [i \in 1..Len(file.data.files) |-> ReadFileSnapshot(file.data.files[i])],
          timestamp |-> IF file.data.timestamp = 0 THEN dateNow ELSE file.data.timestamp]

\* saveSnapshot(stSnapshot)
StoreSave ==
    /\ stPhase \in {"start", "loaded"}
    /\ stFile' = saveSnapshotFile(stSnapshot)
    /\ stPhase' = "saved"
    /\ UNCHANGED <<stSnapshot, stNow, stLoaded, stUpdateStarted>>
    /\ UNCHANGED othersStore

\* loadSnapshot
StoreLoad ==
    /\ stPhase \in {"start", "saved"}
    /\ stLoaded' = loadSnapshotFile(stFile, stNow)
    /\ stPhase' = IF stPhase = "saved" THEN "roundTrip" ELSE "loaded"
    /\ UNCHANGED <<stFile, stSnapshot, stNow, stUpdateStarted>>
    /\ UNCHANGED othersStore

\* checkSnapshotAndUpdate with no old snapshot in its closure: stSnapshot is the new
\* snapshot; the old one is loaded; with an old snapshot and changes updateRAG is
\* called, otherwise the new snapshot is saved. An exception ends in the catch block.
StoreCheck ==
    /\ stPhase \in {"start", "rescanned"}
    /\ stPhase' = "checked"
    /\ LET old == loadSnapshotFile(stFile, stNow)
       IN  /\ stLoaded' = old
           /\ IF old = Thrown
              THEN UNCHANGED <<stFile, stUpdateStarted>>
              ELSE IF old # NoSnapshot /\ totalChanges(compareSnapshots(old, stSnapshot)) > 0
              THEN stUpdateStarted' = TRUE /\ UNCHANGED stFile
              ELSE stFile' = saveSnapshotFile(stSnapshot) /\ UNCHANGED stUpdateStarted
    /\ UNCHANGED <<stSnapshot, stNow>>
    /\ UNCHANGED othersStore

\* createSnapshot returns a new snapshot of the workspace.
StoreRescan(snapshot) ==
    /\ stPhase = "saved"
    /\ snapshot.timestamp > stSnapshot.timestamp
    /\ stSnapshot' = snapshot
    /\ stPhase' = "rescanned"
    /\ UNCHANGED <<stFile, stNow, stLoaded, stUpdateStarted>>
    /\ UNCHANGED othersStore

InitStore ==
    /\ stFile \in StoreFiles
    /\ stSnapshot \in StoreSnapshots
    /\ stNow = 300
    /\ stLoaded = NoResult
    /\ stUpdateStarted = FALSE
    /\ stPhase = "start"
    /\ IdleDiff
    /\ IdleExt
    /\ IdleWatch
    /\ IdleSnap
    /\ IdleChat
    /\ IdleIv
    /\ IdlePath
    /\ IdleRetrieve
    /\ IdleFolders
    /\ IdleStream
    /\ IdleHistory
    /\ IdlePatch
    /\ IdleButtons
    /\ IdleConv

NextStore ==
    \/ StoreSave
    \/ StoreLoad
    \/ StoreCheck
    \/ \E snapshot \in StoreSnapshots : StoreRescan(snapshot)

SpecStore == InitStore /\ [][NextStore]_vars

----------------------------------------------------------------------------
(* SpecStream: the stdout and close handlers of ChatPanel.callPythonAI. The *)
(* process writes lines of bytes; an event is written as { text }, where    *)
(* the first character of text tells its type: "t" an event that is not a   *)
(* final message, "F" and "G" final messages with messages "m1" and "m2",   *)
(* "Z" a final message with an empty message. "L" "C" are the two bytes of  *)
(* one non-ASCII character (written "e2" once decoded); "?" is U+FFFD.      *)

MaxLines == 2               \* lines the process writes

EventLines ==
    {<<"{", "t", "}">>, <<"{", "F", "}">>, <<"{", "G", "}">>, <<"{", "Z", "}">>,
     <<"{", "t", "L", "C", "}">>}
PyLines == EventLines \cup {<<" ">>, <<"{", "t">>}

RECURSIVE JoinLines(_)
\* The lines, each followed by a newline.
JoinLines(lines) ==
    IF lines = <<>> THEN <<>> ELSE Head(lines) \o <<"\n">> \o JoinLines(Tail(lines))

\* What the process can write: up to MaxLines lines, the last one with or without
\* its newline.
PyOutputs ==
    LET Texts == UNION {[1..n -> PyLines] : n \in 0..MaxLines}
    IN  {JoinLines(t) : t \in Texts}
        \cup {SubSeq(JoinLines(t), 1, Len(JoinLines(t)) - 1) : t \in Texts \ {<<>>}}

RECURSIVE toString(_)
\* data.toString(): UTF-8 decoding of one chunk; a byte sequence cut off by the end of
\* the chunk, and a continuation byte without its lead byte, become U+FFFD.
toString(data) ==
    IF data = <<>> THEN <<>>
    ELSE IF data[1] = "L"
         THEN IF Len(data) >= 2 /\ data[2] = "C"
              THEN <<"e2">> \o toString(SubSeq(data, 3, Len(data)))
              ELSE <<"?">> \o toString(Tail(data))
    ELSE IF data[1] = "C" THEN <<"?">> \o toString(Tail(data))
    ELSE <<data[1]>> \o toString(Tail(data))

RECURSIVE split(_)
\* buffer.split('\n')
split(text) ==
    IF \A i \in 1..Len(text) : text[i] # "\n" THEN <<text>>
    ELSE LET i == CHOOSE i \in 1..Len(text) :
                      text[i] = "\n" /\ \A j \in 1..(i - 1) : text[j] # "\n"
         IN  <<SubSeq(text, 1, i - 1)>> \o split(SubSeq(text, i + 1, Len(text)))

RECURSIVE trim(_)
trim(line) ==
    IF line = <<>> THEN line
    ELSE IF Head(line) = " " THEN trim(Tail(line))
    ELSE IF line[Len(line)] = " " THEN trim(SubSeq(line, 1, Len(line) - 1))
    ELSE line

\* JSON.parse: a line parses when it is { text } with a non-empty text.
Parses(line) ==
    LET t == trim(line)
    IN  Len(t) >= 3 /\ t[1] = "{" /\ t[Len(t)] = "}"
        /\ \A i \in 2..(Len(t) - 1) : t[i] \notin {"{", "}", " ", "\n"}
JSONparse(line) == LET t == trim(line) IN SubSeq(t, 2, Len(t) - 1)

IsFinalMessage(msg) == msg[1] \in {"F", "G", "Z"}
Message(msg) == IF msg[1] = "F" THEN "m1" ELSE IF msg[1] = "G" THEN "m2" ELSE ""

RECURSIVE ProcessLines(_, _)
\* for (const line of lines): blank lines are skipped, lines that do not parse are
\* logged, the others are posted and a final message is remembered.
ProcessLines(lines, acc) ==
    IF lines = <<>> THEN acc
    ELSE LET line == Head(lines)
         IN  IF trim(line) = <<>> \/ ~Parses(line)
             THEN ProcessLines(Tail(lines), acc)
             ELSE LET msg == JSONparse(line)
                  IN  ProcessLines(Tail(lines),
                          [forwarded |-> Append(acc.forwarded, msg),
                           finalMessage |-> IF IsFinalMessage(msg) THEN Message(msg)
                                            ELSE acc.finalMessage])

\* pythonProcess.stdout.on('data'): the next n bytes arrive as one chunk.
Data(n) ==
    /\ chatPromise.state = "pending"
    /\ pyPos + n <= Len(pyBytes)
    /\ LET text == buffer \o toString(SubSeq(pyBytes, pyPos + 1, pyPos + n))
           lines == split(text)
           r == ProcessLines(SubSeq(lines, 1, Len(lines) - 1),
                             [forwarded |-> forwarded, finalMessage |-> finalMessage])
       IN  /\ buffer' = lines[Len(lines)]
           /\ forwarded' = r.forwarded
           /\ finalMessage' = r.finalMessage
    /\ pyPos' = pyPos + n
    /\ UNCHANGED <<pyBytes, chatPromise>>
    /\ UNCHANGED othersStream

\* pythonProcess.on('close'), after stdout has ended: with code 0 the rest of the
\* buffer is processed and the promise resolves; otherwise it rejects.
Close(code) ==
    /\ chatPromise.state = "pending"
    /\ pyPos = Len(pyBytes)
    /\ IF code = 0
       THEN IF trim(buffer) # <<>> /\ Parses(buffer)
            THEN LET msg == JSONparse(buffer)
                     final == IF IsFinalMessage(msg) /\ Message(msg) # ""
                              THEN Message(msg) ELSE finalMessage
                 IN  /\ forwarded' = Append(forwarded, msg)
                     /\ finalMessage' = final
                     /\ chatPromise' = [state |-> "resolved", value |-> final]
            ELSE /\ chatPromise' = [state |-> "resolved", value |-> finalMessage]
                 /\ UNCHANGED <<forwarded, finalMessage>>
       ELSE /\ chatPromise' = [state |-> "rejected"]
            /\ UNCHANGED <<forwarded, finalMessage>>
    /\ UNCHANGED <<pyBytes, pyPos, buffer>>
    /\ UNCHANGED othersStream

InitStream ==
    /\ pyBytes \in PyOutputs
    /\ pyPos = 0
    /\ buffer = <<>>
    /\ forwarded = <<>>
    /\ finalMessage = ""
    /\ chatPromise = [state |-> "pending"]
    /\ IdleDiff
    /\ IdleExt
    /\ IdleWatch
    /\ IdleSnap
    /\ IdleChat
    /\ IdleIv
    /\ IdlePath
    /\ IdleRetrieve
    /\ IdleFolders
    /\ IdleStore
    /\ IdleHistory
    /\ IdlePatch
    /\ IdleButtons
    /\ IdleConv

NextStream ==
    \/ \E n \in 1..Len(pyBytes) : Data(n)
    \/ \E code \in {0, 1} : Close(code)

SpecStream == InitStream /\ [][NextStream]_vars

----------------------------------------------------------------------------
(* SpecHistory: ChatPanel.sendMessage and ChatPanel.clearChat. Every entry  *)
(* of chatHistory carries the number of the sendMessage call that pushed it.*)

MaxCalls == 3               \* sendMessage calls
MaxClears == 2              \* clearChat calls

UserMessages == {"  ", "hello"}

\* sendMessage up to the await: nothing for a blank message, else the user message is
\* pushed and callPythonAI is started.
SendMessage(userMessage) ==
    /\ chatCalls < MaxCalls
    /\ chatCalls' = chatCalls + 1
    /\ IF userMessage = "  "
       THEN UNCHANGED <<chatHistory, chatInFlight>>
       ELSE /\ chatHistory' = Append(chatHistory,
                                     [role |-> "user", call |-> chatCalls + 1])
            /\ chatInFlight' = chatInFlight \cup {chatCalls + 1}
    /\ UNCHANGED <<chatCleared, chatClears>>
    /\ UNCHANGED othersHistory

\* callPythonAI settles: the response, or the error message, is pushed as the
\* assistant's entry.
AiSettled(call, resolved) ==
    /\ call \in chatInFlight
    /\ chatInFlight' = chatInFlight \ {call}
    /\ chatHistory' = Append(chatHistory,
                             [role |-> "assistant", call |-> call, error |-> ~resolved])
    /\ UNCHANGED <<chatCalls, chatCleared, chatClears>>
    /\ UNCHANGED othersHistory

\* clearChat
ClearChat ==
    /\ chatClears < MaxClears
    /\ chatClears' = chatClears + 1
    /\ chatHistory' = <<>>
    /\ chatCleared' = 1..chatCalls
    /\ UNCHANGED <<chatCalls, chatInFlight>>
    /\ UNCHANGED othersHistory

InitHistory ==
    /\ chatHistory = <<>>
    /\ chatCalls = 0
    /\ chatInFlight = {}
    /\ chatCleared = {}
    /\ chatClears = 0
    /\ IdleDiff
    /\ IdleExt
    /\ IdleWatch
    /\ IdleSnap
    /\ IdleChat
    /\ IdleIv
    /\ IdlePath
    /\ IdleRetrieve
    /\ IdleFolders
    /\ IdleStore
    /\ IdleStream
    /\ IdlePatch
    /\ IdleButtons
    /\ IdleConv

NextHistory ==
    \/ \E userMessage \in UserMessages : SendMessage(userMessage)
    \/ \E call \in chatInFlight, resolved \in BOOLEAN : AiSettled(call, resolved)
    \/ ClearChat

SpecHistory == InitHistory /\ [][NextHistory]_vars

----------------------------------------------------------------------------
(* SpecPatch: parsePatch (unified diff format) and applyPatchToText         *)
(* (patchUtils.ts). A line is the sequence of its characters; a text is the *)
(* sequence of its lines (text.split('\n'), result.join('\n')).            *)

MaxTextLines == 3           \* lines of the text
MaxHunkLines == 3           \* lines of the hunk

\* Lines of a source file: a blank line, a plain line, and a line that starts with a
\* minus sign (a negative number, a decrement, a comment in some languages).
LineTexts == {<<>>, <<"a">>, <<"-", "a">>}
Texts == UNION {[1..n -> LineTexts] : n \in 1..MaxTextLines}

FileHeader == <<"-", "-", "-", " ", "f">>       \* --- f
HunkHeader == <<"@@ -1 +1 @@">>                 \* a hunk header, one token
HunkLines == {<<mark>> \o t : mark \in {"-", "+", " "}, t \in LineTexts}
Hunks == UNION {[1..n -> HunkLines] : n \in 0..MaxHunkLines}

\* A patch: the hunk lines, after the file header and the hunk header or without them.
PatchContents ==
    {(IF fh THEN <<FileHeader>> ELSE <<>>) \o (IF hh THEN <<HunkHeader>> ELSE <<>>) \o h :
        fh \in BOOLEAN, hh \in BOOLEAN, h \in Hunks}

\* line.startsWith(prefix)
startsWith(line, prefix) ==
    Len(line) >= Len(prefix) /\ SubSeq(line, 1, Len(prefix)) = prefix

NoPatch == [currentTargetFile |-> "", allOldLines |-> <<>>, allNewLines |-> <<>>,
            inHunk |-> FALSE, patches |-> <<>>]

\* patches.push(...) when a target file is known and a line was collected.
PushPatch(st) ==
    IF st.currentTargetFile # "" /\ (st.allOldLines # <<>> \/ st.allNewLines # <<>>)
    THEN Append(st.patches, [targetFile |-> st.currentTargetFile,
                             oldLines |-> st.allOldLines, newLines |-> st.allNewLines])
    ELSE st.patches

RECURSIVE ParseLoop(_, _, _)
\* The loop of parsePatch over the lines of the patch content.
ParseLoop(lines, i, st) ==
    IF i > Len(lines) THEN st
    ELSE LET line == lines[i]
         IN  IF startsWith(line, <<"-", "-", "-", " ">>)
             THEN ParseLoop(lines, i + 1,
                      [currentTargetFile |-> "f", allOldLines |-> <<>>,
                       allNewLines |-> <<>>, inHunk |-> FALSE, patches |-> PushPatch(st)])
             ELSE IF line = HunkHeader
             THEN ParseLoop(lines, i + 1, [st EXCEPT !.inHunk = TRUE])
             ELSE IF st.inHunk /\ st.currentTargetFile # ""
             THEN IF startsWith(line, <<"-">>) /\ ~startsWith(line, <<"-", "-">>)
                  THEN ParseLoop(lines, i + 1,
                           [st EXCEPT !.allOldLines = Append(@, Tail(line))])
                  ELSE IF startsWith(line, <<"+">>) /\ ~startsWith(line, <<"+", "+">>)
                  THEN ParseLoop(lines, i + 1,
                           [st EXCEPT !.allNewLines = Append(@, Tail(line))])
                  ELSE IF startsWith(line, <<" ">>)
                  THEN ParseLoop(lines, i + 1,
                           [st EXCEPT !.allOldLines = Append(@, Tail(line)),
                                      !.allNewLines = Append(@, Tail(line))])
                  ELSE ParseLoop(lines, i + 1, st)
             ELSE ParseLoop(lines, i + 1, st)

parsePatch(content) == PushPatch(ParseLoop(content, 1, NoPatch))

\* The number of old lines found at position i (0-based) of lines.
MatchCount(lines, oldLines, i) ==
    Cardinality({j \in 0..(Len(oldLines) - 1) :
                    i + j < Len(lines) /\ lines[i + j + 1] = oldLines[j + 1]})

\* "Try exact match first": the first position where all old lines are found, or -1.
ExactMatch(lines, oldLines) ==
    LET found == {i \in 0..(Len(lines) - Len(oldLines)) :
                     MatchCount(lines, oldLines, i) = Len(oldLines)}
    IN  IF found = {} THEN -1 ELSE CHOOSE i \in found : \A k \in found : i <= k

\* "Fuzzy match": the first position with the best score among those where at least
\* half of the old lines are found, or -1.
FuzzyMatch(lines, oldLines) ==
    LET good == {i \in 0..(Len(lines) - Len(oldLines)) :
                    2 * MatchCount(lines, oldLines, i) >= Len(oldLines)
                    /\ MatchCount(lines, oldLines, i) > 0}
        best == {i \in good : \A k \in good :
                    MatchCount(lines, oldLines, k) <= MatchCount(lines, oldLines, i)}
    IN  IF good = {} THEN -1 ELSE CHOOSE i \in best : \A k \in best : i <= k

\* lines.slice(from)
Slice(lines, from) == SubSeq(lines, from + 1, Len(lines))

applyPatchToText(lines, content) ==
    LET patches == parsePatch(content)
    IN  IF patches = <<>> THEN Thrown
        ELSE LET oldLines == patches[1].oldLines
                 newLines == patches[1].newLines
             IN  IF oldLines = <<>> /\ newLines # <<>>
                 THEN \* text + (text.endsWith('\n') ? '' : '\n') + newLines.join('\n')
                      IF Len(lines) >= 2 /\ lines[Len(lines)] = <<>>
                      THEN SubSeq(lines, 1, Len(lines) - 1) \o newLines
                      ELSE lines \o newLines
                 ELSE LET exact == ExactMatch(lines, oldLines)
                          patchStart == IF exact # -1 THEN exact
                                        ELSE FuzzyMatch(lines, oldLines)
                      IN  IF patchStart = -1 THEN Thrown
                          ELSE SubSeq(lines, 1, patchStart) \o newLines
                               \o Slice(lines, patchStart + Len(oldLines))

\* One call of applyPatchToText.
ApplyPatch ==
    /\ patchResult = NoResult
    /\ patchResult' = [value |-> applyPatchToText(patchText, patchContent)]
    /\ UNCHANGED <<patchText, patchContent>>
    /\ UNCHANGED othersPatch

InitPatch ==
    /\ patchText \in Texts
    /\ patchContent \in PatchContents
    /\ patchResult = NoResult
    /\ IdleDiff
    /\ IdleExt
    /\ IdleWatch
    /\ IdleSnap
    /\ IdleChat
    /\ IdleIv
    /\ IdlePath
    /\ IdleRetrieve
    /\ IdleFolders
    /\ IdleStore
    /\ IdleStream
    /\ IdleHistory
    /\ IdleButtons
    /\ IdleConv

NextPatch == ApplyPatch

SpecPatch == InitPatch /\ [][NextPatch]_vars

----------------------------------------------------------------------------
(* SpecButtons: the tool-call handlers of ChatPanel that generate a patch   *)
(* and the Accept/Reject buttons of the webview.                            *)

MaxToolCalls == 3           \* tool calls of one conversation
MaxNow == 3                 \* Date.now() stays below this bound
MaxClicks == 2              \* clicks on Accept or Reject

PatchTools == {"apply_patch", "search_replace"}

\* this.webview.postMessage(message)
PostMessage(posted, command, sessionId) ==
    Append(posted, [command |-> command, sessionId |-> sessionId])

\* callPythonAI: a tool_call event of a patch tool starts its handler, which is not
\* awaited. With complete = FALSE a required parameter is missing and the handler
\* returns; otherwise it waits for openTextDocument.
ToolCall(tool, complete) ==
    /\ Len(cpHandlers) < MaxToolCalls
    /\ cpHandlers' = Append(cpHandlers,
           [tool |-> tool, at |-> IF complete THEN "reading" ELSE "done", sessionId |-> 0])
    /\ UNCHANGED <<cpCurrentPatchSessionId, cpNow, cpPosted, wvCurrentPatchSessionId,
                   wvShown, wvClicks>>
    /\ UNCHANGED othersButtons

\* handleApplyPatchToolCall / handleSearchReplaceToolCall after the file was read: the
\* after-text is computed (generated = FALSE: applyPatchToText throws, or the start or
\* end line is not found), the session id is taken from the clock, the buttons of the
\* previous patch are hidden and currentPatchSessionId is set.
GeneratePatch(h, generated) ==
    /\ h \in 1..Len(cpHandlers)
    /\ cpHandlers[h].at = "reading"
    /\ IF generated
       THEN /\ cpHandlers' = [cpHandlers EXCEPT ![h].at = "previewing",
                                                ![h].sessionId = cpNow]
            /\ cpCurrentPatchSessionId' = cpNow
            /\ cpPosted' = IF cpCurrentPatchSessionId # 0
                           THEN PostMessage(cpPosted, "hidePatchButtons", 0)
                           ELSE cpPosted
       ELSE /\ cpHandlers' = [cpHandlers EXCEPT ![h].at = "done"]
            /\ UNCHANGED <<cpCurrentPatchSessionId, cpPosted>>
    /\ UNCHANGED <<cpNow, wvCurrentPatchSessionId, wvShown, wvClicks>>
    /\ UNCHANGED othersButtons

\* The handler after the edit was applied and the preview shown (shown = FALSE: one of
\* them threw): it posts showPatchButtons with its session id.
ShowPatchButtons(h, shown) ==
    /\ h \in 1..Len(cpHandlers)
    /\ cpHandlers[h].at = "previewing"
    /\ cpHandlers' = [cpHandlers EXCEPT ![h].at = "done"]
    /\ cpPosted' = IF shown
                   THEN PostMessage(cpPosted, "showPatchButtons", cpHandlers[h].sessionId)
                   ELSE cpPosted
    /\ UNCHANGED <<cpCurrentPatchSessionId, cpNow, wvCurrentPatchSessionId, wvShown,
                   wvClicks>>
    /\ UNCHANGED othersButtons

\* A millisecond passes.
ClockTick ==
    /\ cpNow < MaxNow
    /\ cpNow' = cpNow + 1
    /\ UNCHANGED <<cpCurrentPatchSessionId, cpHandlers, cpPosted, wvCurrentPatchSessionId,
                   wvShown, wvClicks>>
    /\ UNCHANGED othersButtons

\* The message listener of the webview: showPatchButtons / hidePatchButtons.
WebviewMessage ==
    /\ cpPosted # <<>>
    /\ LET data == Head(cpPosted)
       IN  IF data.command = "showPatchButtons"
           THEN wvCurrentPatchSessionId' = data.sessionId /\ wvShown' = TRUE
           ELSE wvCurrentPatchSessionId' = 0 /\ wvShown' = FALSE
    /\ cpPosted' = Tail(cpPosted)
    /\ UNCHANGED <<cpCurrentPatchSessionId, cpHandlers, cpNow, wvClicks>>
    /\ UNCHANGED othersButtons

\* The click listeners of the Accept and Reject buttons.
ClickPatchButton ==
    /\ wvShown
    /\ wvClicks < MaxClicks
    /\ wvCurrentPatchSessionId # 0
    /\ wvShown' = FALSE
    /\ wvCurrentPatchSessionId' = 0
    /\ wvClicks' = wvClicks + 1
    /\ UNCHANGED <<cpCurrentPatchSessionId, cpHandlers, cpNow, cpPosted>>
    /\ UNCHANGED othersButtons

InitButtons ==
    /\ cpCurrentPatchSessionId = 0
    /\ cpHandlers = <<>>
    /\ cpNow = 1
    /\ cpPosted = <<>>
    /\ wvCurrentPatchSessionId = 0
    /\ wvShown = FALSE
    /\ wvClicks = 0
    /\ IdleDiff
    /\ IdleExt
    /\ IdleWatch
    /\ IdleSnap
    /\ IdleChat
    /\ IdleIv
    /\ IdlePath
    /\ IdleRetrieve
    /\ IdleFolders
    /\ IdleStore
    /\ IdleStream
    /\ IdleHistory
    /\ IdlePatch
    /\ IdleConv

NextButtons ==
    \/ \E tool \in PatchTools, complete \in BOOLEAN : ToolCall(tool, complete)
    \/ \E h \in 1..MaxToolCalls, generated \in BOOLEAN : GeneratePatch(h, generated)
    \/ \E h \in 1..MaxToolCalls, shown \in BOOLEAN : ShowPatchButtons(h, shown)
    \/ ClockTick
    \/ WebviewMessage
    \/ ClickPatchButton

SpecButtons == InitButtons /\ [][NextButtons]_vars

----------------------------------------------------------------------------
(* SpecConv: useConversation. The backend records the events of an agent    *)
(* under the sequence numbers 1, 2, ...; the replay stream sends them from  *)
(* sequence 1 and then a done event, the live stream sends them from the    *)
(* from_sequence it was opened with. An event is modelled by its sequence   *)
(* number.                                                                  *)

MaxEvents == 3              \* events the backend records
MaxReconnects == 2          \* calls of reconnect

\* startEventStream(fromSequence): the existing stream is closed, a new one is opened.
startEventStream(fromSequence) ==
    /\ liveOpen' = TRUE
    /\ liveNext' = fromSequence

\* The agent records one more event.
BackendEvent ==
    /\ cvLog < MaxEvents
    /\ cvLog' = cvLog + 1
    /\ UNCHANGED <<eventsRef, cvAt, historicalEvents, isCompleted, replayNext, replayOpen,
                   replayTimer, liveOpen, liveNext, cvReconnects>>
    /\ UNCHANGED othersConv

\* initializeConnection up to the await of getConversationHistory.
InitializeConnection ==
    /\ cvAt = "start"
    /\ eventsRef = <<>>
    /\ cvAt' = "history"
    /\ UNCHANGED <<cvLog, eventsRef, historicalEvents, isCompleted, replayNext, replayOpen,
                   replayTimer, liveOpen, liveNext, cvReconnects>>
    /\ UNCHANGED othersConv

\* getConversationHistory has settled. When it failed, initializeConnection starts the
\* live stream from 1; with no historical event it starts it from the next sequence;
\* otherwise the replay is started from sequence 1 and the 10 s timer is set.
HistoryLoaded(ok) ==
    /\ cvAt = "history"
    /\ IF ~ok
       THEN /\ startEventStream(1)
            /\ cvAt' = "done"
            /\ UNCHANGED <<replayNext, replayOpen, replayTimer>>
       ELSE IF cvLog = 0
       THEN /\ startEventStream(Len(eventsRef) + 1)
            /\ cvAt' = "done"
            /\ UNCHANGED <<replayNext, replayOpen, replayTimer>>
       ELSE /\ cvAt' = "replay"
            /\ replayOpen' = TRUE
            /\ replayNext' = 1
            /\ replayTimer' = TRUE
            /\ UNCHANGED <<liveOpen, liveNext>>
    /\ UNCHANGED <<cvLog, eventsRef, historicalEvents, isCompleted, cvReconnects>>
    /\ UNCHANGED othersConv

\* onMessage of the replay with an event of the log.
ReplayEvent ==
    /\ replayOpen
    /\ replayNext <= cvLog
    /\ replayNext' = replayNext + 1
    /\ historicalEvents' = IF isCompleted THEN historicalEvents
                           ELSE Append(historicalEvents, replayNext)
    /\ UNCHANGED <<cvLog, eventsRef, cvAt, isCompleted, replayOpen, replayTimer, liveOpen,
                   liveNext, cvReconnects>>
    /\ UNCHANGED othersConv

\* onMessage of the replay with the done event: the historical events are added, the
\* promise is resolved, and initializeConnection, when it still waits for it, starts
\* the live stream from the next sequence.
ReplayDone ==
    /\ replayOpen
    /\ replayNext > cvLog
    /\ replayOpen' = FALSE
    /\ IF isCompleted
       THEN UNCHANGED <<eventsRef, isCompleted, cvAt, liveOpen, liveNext>>
       ELSE /\ isCompleted' = TRUE
            /\ eventsRef' = eventsRef \o historicalEvents
            /\ IF cvAt = "replay"
               THEN startEventStream(Len(eventsRef') + 1) /\ cvAt' = "done"
               ELSE UNCHANGED <<cvAt, liveOpen, liveNext>>
    /\ UNCHANGED <<cvLog, historicalEvents, replayNext, replayTimer, cvReconnects>>
    /\ UNCHANGED othersConv

\* onError of the replay (the connection failed): the promise is rejected,
\* loadHistoricalEvents throws and initializeConnection starts the live stream from 1.
ReplayError ==
    /\ replayOpen
    /\ replayOpen' = FALSE
    /\ IF ~isCompleted /\ cvAt = "replay"
       THEN startEventStream(1) /\ cvAt' = "done"
       ELSE UNCHANGED <<cvAt, liveOpen, liveNext>>
    /\ UNCHANGED <<cvLog, eventsRef, historicalEvents, isCompleted, replayNext, replayTimer,
                   cvReconnects>>
    /\ UNCHANGED othersConv

\* The 10 s timer of loadHistoricalEvents.
ReplayTimeout ==
    /\ replayTimer
    /\ replayTimer' = FALSE
    /\ IF isCompleted
       THEN UNCHANGED <<eventsRef, isCompleted, replayOpen, cvAt, liveOpen, liveNext>>
       ELSE /\ isCompleted' = TRUE
            /\ replayOpen' = FALSE
            /\ eventsRef' = eventsRef \o historicalEvents
            /\ IF cvAt = "replay"
               THEN startEventStream(Len(eventsRef') + 1) /\ cvAt' = "done"
               ELSE UNCHANGED <<cvAt, liveOpen, liveNext>>
    /\ UNCHANGED <<cvLog, historicalEvents, replayNext, cvReconnects>>
    /\ UNCHANGED othersConv

\* onMessage of the live stream: addEvent.
LiveEvent ==
    /\ liveOpen
    /\ liveNext <= cvLog
    /\ eventsRef' = Append(eventsRef, liveNext)
    /\ liveNext' = liveNext + 1
    /\ UNCHANGED <<cvLog, cvAt, historicalEvents, isCompleted, replayNext, replayOpen,
                   replayTimer, liveOpen, cvReconnects>>
    /\ UNCHANGED othersConv

\* The live stream fails or is closed by the backend.
LiveClosed ==
    /\ liveOpen
    /\ liveOpen' = FALSE
    /\ UNCHANGED <<cvLog, eventsRef, cvAt, historicalEvents, isCompleted, replayNext,
                   replayOpen, replayTimer, liveNext, cvReconnects>>
    /\ UNCHANGED othersConv

\* reconnect, called once initializeConnection has returned.
Reconnect ==
    /\ cvAt = "done"
    /\ cvReconnects < MaxReconnects
    /\ cvReconnects' = cvReconnects + 1
    /\ startEventStream(Len(eventsRef) + 1)
    /\ UNCHANGED <<cvLog, eventsRef, cvAt, historicalEvents, isCompleted, replayNext,
                   replayOpen, replayTimer>>
    /\ UNCHANGED othersConv

InitConv ==
    /\ cvLog \in 0..1
    /\ eventsRef = <<>>
    /\ cvAt = "start"
    /\ historicalEvents = <<>>
    /\ isCompleted = FALSE
    /\ replayNext = 1
    /\ replayOpen = FALSE
    /\ replayTimer = FALSE
    /\ liveOpen = FALSE
    /\ liveNext = 1
    /\ cvReconnects = 0
    /\ IdleDiff
    /\ IdleExt
    /\ IdleWatch
    /\ IdleSnap
    /\ IdleChat
    /\ IdleIv
    /\ IdlePath
    /\ IdleRetrieve
    /\ IdleFolders
    /\ IdleStore
    /\ IdleStream
    /\ IdleHistory
    /\ IdlePatch
    /\ IdleButtons

NextConv ==
    \/ BackendEvent
    \/ InitializeConnection
    \/ \E ok \in BOOLEAN : HistoryLoaded(ok)
    \/ ReplayEvent
    \/ ReplayDone
    \/ ReplayError
    \/ ReplayTimeout
    \/ LiveEvent
    \/ LiveClosed
    \/ Reconnect

SpecConv == InitConv /\ [][NextConv]_vars

----------------------------------------------------------------------------
(* Properties of compareSnapshots (SpecDiff) *)

InBoth == MapKeys(cmpOld.files) \cap MapKeys(cmpNew.files)
SameHash(p) == MapGet(cmpOld.files, p).hash = MapGet(cmpNew.files, p).hash
Entry(p, h, m) == [path |-> p, hash |-> h, mtime |-> m]
NoDuplicates(s) == \A i, j \in 1..Len(s) : i # j => s[i] # s[j]

\* The example: old {a:h1, b:h2}, new {a:h1, b:h3, c:h4}.
ExampleCompared ==
    /\ cmpResult # NoResult
    /\ cmpOld.files = <<Entry("a", "h1", 10), Entry("b", "h2", 10)>>
    /\ cmpNew.files = <<Entry("a", "h1", 10), Entry("b", "h3", 10), Entry("c", "h4", 10)>>

\* C5: compareSnapshots returns as changed exactly the paths in both snapshots whose
\* hashes differ, as added exactly the paths only in the new one and as deleted
\* exactly the paths only in the old one; on the example changed = [b], added = [c],
\* deleted = [].
C5_ExactDiff ==
    cmpResult # NoResult =>
        /\ Range(cmpResult.changed) = {p \in InBoth : ~SameHash(p)}
        /\ Range(cmpResult.added) = MapKeys(cmpNew.files) \ MapKeys(cmpOld.files)
        /\ Range(cmpResult.deleted) = MapKeys(cmpOld.files) \ MapKeys(cmpNew.files)
        /\ ExampleCompared =>
              cmpResult = [added |-> <<"c">>, deleted |-> << >>, changed |-> <<"b">>]

\* A comparison with a changed, an added and a deleted path at once.
C5_Witness ==
    /\ cmpResult # NoResult
    /\ cmpOld.files = <<Entry("a", "h1", 10), Entry("b", "h2", 10)>>
    /\ cmpNew.files = <<Entry("c", "h4", 20), Entry("b", "h3", 20)>>
    /\ cmpResult = [added |-> <<"c">>, deleted |-> <<"a">>, changed |-> <<"b">>]

\* C6: a path with the same hash in both snapshots is in none of the three lists,
\* whatever its mtime and the timestamps; the lists are pairwise disjoint and without
\* duplicates.
C6_UnchangedExcluded ==
    cmpResult # NoResult =>
        LET lists == {cmpResult.added, cmpResult.changed, cmpResult.deleted}
        IN  /\ \A p \in InBoth : SameHash(p) => \A l \in lists : p \notin Range(l)
            /\ \A l \in lists : NoDuplicates(l)
            /\ Range(cmpResult.added) \cap Range(cmpResult.changed) = {}
            /\ Range(cmpResult.added) \cap Range(cmpResult.deleted) = {}
            /\ Range(cmpResult.changed) \cap Range(cmpResult.deleted) = {}

\* A comparison of a file with the same hash and a later mtime, in snapshots of
\* different timestamps, next to a changed file.
C6_Witness ==
    /\ cmpResult # NoResult
    /\ cmpOld.timestamp # cmpNew.timestamp
    /\ \E p \in InBoth :
          SameHash(p) /\ MapGet(cmpOld.files, p).mtime # MapGet(cmpNew.files, p).mtime
    /\ cmpResult.changed # << >>

----------------------------------------------------------------------------
(* Properties of the extension *)

\* The hash a snapshot records for a file, NoFile when it has no entry.
HashIn(s, f) ==
    IF \E e \in Range(s.files) : e.path = f
    THEN (CHOOSE e \in Range(s.files) : e.path = f).hash
    ELSE NoFile

\* The files two snapshots disagree on.
Differ(s1, s2) == {f \in Files : HashIn(s1, f) # HashIn(s2, f)}

Request(p) == p.changed_files \cup p.deleted_files

\* The processes spawned, and the running processes that end, in a step.
Spawned == {p \in procs' \ procs : p.running}
Ended == {p \in procs : p.running /\ p \notin procs'}

\* C1: when the update a periodic check launched fails, the persisted snapshot and the
\* checker's oldSnapshot are still the snapshot the check compared against.
C1_FailedUpdateKeepsSnapshot ==
    [][\A p \in Ended :
          (p.waiter = "check" /\ lastEvent'.type = "updateFailed")
              => (disk' = saveSnapshot(p.base) /\ oldSnapshot' = p.base)]_vars

\* C2: once the periodic checker is set up, a snapshot that differs from the persisted
\* one is persisted only by the success of an update process that was given every file
\* of the difference.
C2_PersistOnlyAfterSuccess ==
    [][(flow = "watching" /\ disk # NoSnapshot /\ Differ(disk, disk') # {})
          => \E p \in Ended :
                /\ lastEvent'.type = "saved"
                /\ lastEvent'.why = "updateSucceeded"
                /\ Differ(disk, disk') \subseteq Request(p)]_vars

\* C3: at most one update process is running.
C3_OneUpdateProcess == Cardinality(Running) <= 1

\* C4: a file left pending by an updateRAG call that returned because an update was in
\* flight stays pending until it is handed to a process (or the process in flight, which
\* ends, had been given it too), and no process is started while another one runs.
C4_DeferredNotDiscarded ==
    [][/\ \A f \in pendingChangedFiles \cup pendingDeletedFiles :
              \/ f \in pendingChangedFiles' \cup pendingDeletedFiles'
              \/ \E p \in Spawned \cup Ended : f \in Request(p)
              \/ lastEvent'.type = "updateFailed"
       /\ Spawned # {} => Running = {}]_vars

\* C7: after the catch-up's update has failed no snapshot is written by the catch-up.
C7_FailedCatchUpKeepsSnapshot ==
    [][flow = "fallbackScan" => disk' = disk]_vars

\* The catch-up has not completed: no check has been scheduled or is running.
CatchUpFirst ==
    /\ flow \notin {"watching", "disposed"} =>
          checks = {} /\ ~due /\ initialCheck = {} /\ snapshotCheckTimer = {}
    /\ \A p \in Running : p.waiter = "catchUp" => flow = "catchUpUpdate"

\* createSnapshot could read file f for the snapshot s it made of the workspace.
ReadIn(s, f) == ws[f] # NoFile /\ HashIn(s, f) = ws[f]

C9_DeletedFileIsSent ==
    [][/\ \A f \in Files :
            LET scanDone == \/ flow = "catchUpScan" /\ flow' # flow
                            \/ checks' # checks /\ checks' \subseteq checks
                old == IF flow = "catchUpScan" THEN catchUp
                       ELSE IF oldSnapshot = NoSnapshot THEN loadSnapshot(disk)
                       ELSE oldSnapshot
            IN  (scanDone /\ old # NoSnapshot /\ HashIn(old, f) # NoFile /\ ws[f] = NoFile)
                    => \/ \E p \in Spawned \cup Running : f \in p.deleted_files
                       \/ lastEvent'.type = "updateFailed"
       /\ \A p \in Ended :
            (lastEvent'.type = "saved" /\ lastEvent'.why = "updateSucceeded")
                => \A f \in p.deleted_files : HashIn(disk', f) = NoFile]_vars

\* C10: an update request holds only files on which the two snapshots of its cycle
\* disagree.
C10_OnlyFilesOfTheDiff ==
    \A p \in Running : Request(p) \subseteq Differ(p.base, p.newSnapshot)

\* C11: a file placed in the pending sets while an update is in flight, and not part of
\* that update's request, is still pending when that update completes.
C11_PendingSurvivesCompletion ==
    [][\A p \in Ended :
          \A f \in (pendingChangedFiles \cup pendingDeletedFiles) \ Request(p) :
              f \in pendingChangedFiles' \cup pendingDeletedFiles']_vars

\* The running processes the 5-minute timer kills in a step.
Killed == {p \in Ended : now >= p.id + UpdateTimeout /\ Exited(p) \notin procs'}

\* C13: when the timeout kills an update process the attempt has failed,
\* ragUpdateInProgress is false again, and the persisted snapshot is the one the
\* attempt started from.
C13_TimeoutKeepsSnapshot ==
    [][\A p \in Killed :
          /\ lastEvent'.type = "updateFailed"
          /\ ragUpdateInProgress' = FALSE
          /\ disk' = saveSnapshot(p.base)]_vars

\* C14: an update process that was in flight when the subscriptions were disposed
\* does not lead to a snapshot being written when it ends.
C14_NoSaveAfterDispose ==
    [][\A p \in Ended : p.cancelled => disk' = disk]_vars

\* C15: a check of a workspace whose files all have the hashes recorded in the snapshot
\* the check compares against, and in the persisted snapshot, starts no update process
\* and leaves the path-to-hash map of the persisted snapshot as it is.
C15_UnchangedWorkspaceNoUpdate ==
    [][LET old == IF oldSnapshot = NoSnapshot THEN loadSnapshot(disk) ELSE oldSnapshot
       IN  (/\ checks' # checks /\ checks' \subseteq checks
            /\ old # NoSnapshot
            /\ \A f \in Files : HashIn(old, f) = ws[f] /\ HashIn(disk, f) = ws[f])
           => /\ Spawned = {}
              /\ \A f \in Files : HashIn(disk', f) = HashIn(disk, f)]_vars

\* C23: a file newly put into the deleted_files of a request is no longer in the
\* workspace; a file that exists but could not be read in the scan is not among them.
C23_DeletedOnlyIfGone ==
    [][\A p \in Spawned :
          \A f \in p.deleted_files \ pendingDeletedFiles : ws[f] = NoFile]_vars

\* C24: the pending sets are disjoint, and no running update was asked to treat a file
\* both as changed and as deleted.
C24_PendingSetsDisjoint ==
    /\ pendingChangedFiles \cap pendingDeletedFiles = {}
    /\ \A p \in Running : p.changed_files \cap p.deleted_files = {}

----------------------------------------------------------------------------
(* Properties of the file-watcher variant (SpecWatch) *)

WatchSpawned == {p \in watchProcs' \ watchProcs : p.running}

\* C12: a process is started only by the debounce timer, one second after the last
\* notification of a burst, and when the timer fires for a burst one process is
\* started whose request holds every file of the burst (unless it cannot be spawned).
C12_OneUpdatePerBurst ==
    [][/\ WatchSpawned # {} => fileChangeDebounceTimer = {0}
       /\ (fileChangeDebounceTimer = {0} /\ fileChangeDebounceTimer' = {}
              /\ watchEvent'.type = "debounce")
            => \/ /\ Cardinality(WatchSpawned) = 1
                  /\ \A p \in WatchSpawned :
                        burst \subseteq p.changed_files \cup p.deleted_files
               \/ watchEvent'.result = "rejected"]_vars

----------------------------------------------------------------------------
(* Properties of createSnapshot (SpecSnap) *)

\* C16: createSnapshot returns a snapshot whatever files are unreadable; it has no
\* entry for a file that is absent or could not be read, and records every other file
\* once, with the hash of its content.
C16_UnreadableFilesSkipped ==
    snapResult # NoResult =>
        /\ snapResult # NoSnapshot
        /\ \A f \in Files :
              IF snapWorkspace[f] # NoFile /\ f \notin snapUnreadable
              THEN /\ Cardinality({i \in 1..Len(snapResult.files) :
                                      snapResult.files[i].path = f}) = 1
                   /\ MapGet(snapResult.files, f).hash = snapWorkspace[f]
              ELSE ~MapHas(snapResult.files, f)

\* A snapshot of two files, one of them unreadable.
C16_Witness ==
    /\ snapResult # NoResult
    /\ snapWorkspace = [f \in Files |-> IF f = "a.py" THEN "h1" ELSE "h2"]
    /\ snapUnreadable = {"a.py"}
    /\ snapResult = [files |-> <<[path |-> "b.py", hash |-> "h2"]>>]

----------------------------------------------------------------------------
(* Properties of chat requests (SpecChat) *)

----------------------------------------------------------------------------
(* Properties of the update interval (SpecInterval) *)

Spaces(n) == [k \in 1..n |-> " "]

\* The values n for which the line reads RAG_UPDATE_INTERVAL_SECONDS = n, with
\* optional white space around the three parts and nothing else.
EntryValues(line) ==
    {parseInt(SubSeq(line, ij[1], ij[2])) :
        ij \in {ij \in (1..Len(line)) \X (1..Len(line)) :
            /\ ij[1] <= ij[2]
            /\ \A k \in ij[1]..ij[2] : line[k] \in Digits
            /\ \E a, b \in 0..(ij[1] - 3) :
                 /\ a + b <= ij[1] - 3
                 /\ line = Spaces(a) \o <<"K">> \o Spaces(b) \o <<"=">>
                           \o Spaces(ij[1] - 3 - a - b) \o SubSeq(line, ij[1], ij[2])
                           \o Spaces(Len(line) - ij[2])}}

\* The interval the configuration gives: the value of the first valid entry, 60 s when
\* the file is missing, cannot be read or has no valid entry.
ConfiguredInterval(env) ==
    LET valid == {i \in 1..Len(env.lines) : EntryValues(env.lines[i]) # {}}
    IN  IF ~env.exists \/ ~env.readable \/ valid = {}
        THEN 60
        ELSE CHOOSE n \in EntryValues(env.lines[CHOOSE i \in valid : \A j \in valid : i <= j]) : TRUE

----------------------------------------------------------------------------
(* Properties of getWorkspaceStoragePath (SpecPath) *)

\* C18: the same workspace path always gives the same storage directory, and two
\* different workspace roots never give the same storage directory.
C18_StoragePathInjective ==
    pathResult # NoResult =>
        /\ pathWorkspaceDirs[1] = pathWorkspaceDirs[2] => pathResult[1] = pathResult[2]
        /\ resolve(pathWorkspaceDirs[1]) # resolve(pathWorkspaceDirs[2])
               => pathResult[1] # pathResult[2]

----------------------------------------------------------------------------
(* Properties of retrieve (SpecRetrieve) *)

FromStore(kind) == SelectSeq(retrieved.results, LAMBDA r : r.kind = kind)

\* C20: with initialCandidates >= rerankTopN and reranking enabled, retrieve returns at
\* most 3 x rerankTopN results, at most rerankTopN of them from each store.
C20_ResultBound ==
    retrieved # NoResult /\ enableRerank /\ initialCandidates >= rerankTopN =>
        /\ Len(retrieved.results) <= 3 * rerankTopN
        /\ \A s \in 1..3 : Len(FromStore(StoreKinds[s])) <= rerankTopN

\* A retrieval with initialCandidates = 3 and rerankTopN = 2 over stores that hold three
\* units each has returned six results, and the reranker has changed the order.
C20_Witness ==
    /\ retrieved # NoResult
    /\ enableRerank /\ initialCandidates = 3 /\ rerankTopN = 2
    /\ \A s \in 1..3 : storeSizes[s] = 3
    /\ Len(retrieved.results) = 6
    /\ retrieved.results[1].unit = 3

----------------------------------------------------------------------------
(* Properties of initialization and updates (SpecFolders) *)

\* C22: no update process is spawned while an initialization process is running.
C22_NoUpdateDuringInit ==
    [][wfUpdateProcs' \ wfUpdateProcs # {} => wfInitProcs = {}]_vars

----------------------------------------------------------------------------
(* Properties of saveSnapshot and loadSnapshot (SpecStore) *)

\* C25: when snapshot.json is missing or cannot be parsed, loadSnapshot returns null
\* without throwing, and the check saves the new snapshot and starts no update.
C25_UnreadableSnapshotIsFirst ==
    [][(stPhase' = "checked" /\ stFile.kind \in {"missing", "garbage"})
          => /\ stLoaded' = NoSnapshot
             /\ ~stUpdateStarted'
             /\ stFile' = saveSnapshotFile(stSnapshot)]_vars

\* A check has found no usable snapshot.json and has saved a snapshot with two files.
C25_Witness ==
    /\ stPhase = "checked"
    /\ stLoaded = NoSnapshot
    /\ stFile = saveSnapshotFile(stSnapshot)
    /\ Len(stSnapshot.files) = 2

\* C26: loadSnapshot after saveSnapshot(s) returns the paths of s, with the hash and
\* the mtime s has for each, and the timestamp of s.
C26_SaveLoadRoundTrip ==
    stPhase = "roundTrip" =>
        /\ stLoaded \notin {NoSnapshot, Thrown}
        /\ MapKeys(stLoaded.files) = MapKeys(stSnapshot.files)
        /\ Len(stLoaded.files) = Len(stSnapshot.files)
        /\ \A p \in MapKeys(stSnapshot.files) :
               /\ MapGet(stLoaded.files, p).hash = MapGet(stSnapshot.files, p).hash
               /\ MapGet(stLoaded.files, p).mtime = MapGet(stSnapshot.files, p).mtime
        /\ stLoaded.timestamp = stSnapshot.timestamp

\* A snapshot of two files, one with and one without mtime, has been saved and loaded.
C26_Witness ==
    /\ stPhase = "roundTrip"
    /\ Len(stSnapshot.files) = 2
    /\ stSnapshot.files[1].mtime = {}
    /\ stSnapshot.files[2].mtime = {10}
    /\ stLoaded.files[2].mtime = {10}

----------------------------------------------------------------------------
(* Properties of callPythonAI's stream handling (SpecStream) *)

\* The events of the lines of a text that are JSON, in order.
EventsOf(lines) ==
    LET json == SelectSeq(lines, LAMBDA l : trim(l) # <<>> /\ Parses(l))
    IN  [i \in 1..Len(json) |-> JSONparse(json[i])]

\* What the process wrote: its newline-terminated lines, and its trailing line.
WrittenLines == split(toString(pyBytes))
CompleteEvents == EventsOf(SubSeq(WrittenLines, 1, Len(WrittenLines) - 1))
TrailingEvents == EventsOf(<<WrittenLines[Len(WrittenLines)]>>)

LastFinalMessage(events) ==
    LET finals == SelectSeq(events, IsFinalMessage)
    IN  IF finals = <<>> THEN "" ELSE Message(finals[Len(finals)])

\* C27: once the process has exited, the webview has received the events of the
\* complete lines once each and in order, however stdout was cut into chunks, followed
\* by the event of a trailing line exactly when the exit code was 0; and with exit code
\* 0 the promise has resolved with the message of the last final message.
C27_LinesForwardedOnce ==
    /\ chatPromise.state = "rejected" => forwarded = CompleteEvents
    /\ chatPromise.state = "resolved" =>
           /\ forwarded = CompleteEvents \o TrailingEvents
           /\ chatPromise.value = LastFinalMessage(CompleteEvents \o TrailingEvents)

----------------------------------------------------------------------------
(* Properties of the chat history (SpecHistory) *)

\* C29: chatHistory holds no entry of a sendMessage call issued before the last
\* clearChat.
C29_ClearedHistoryStaysClear ==
    \A i \in 1..Len(chatHistory) : chatHistory[i].call \notin chatCleared

----------------------------------------------------------------------------
(* Properties of applyPatchToText (SpecPatch) *)

\* The hunk lines of a patch that has its file header and hunk header.
HunkOf(content) ==
    IF Len(content) >= 2 /\ content[1] = FileHeader /\ content[2] = HunkHeader
    THEN SubSeq(content, 3, Len(content))
    ELSE <<>>

\* The old lines of the patch: what its removed and context lines say; its new lines:
\* what its added and context lines say.
OldLinesOf(content) ==
    LET ls == SelectSeq(HunkOf(content), LAMBDA l : l[1] \in {"-", " "})
    IN  [i \in 1..Len(ls) |-> Tail(ls[i])]
NewLinesOf(content) ==
    LET ls == SelectSeq(HunkOf(content), LAMBDA l : l[1] \in {"+", " "})
    IN  [i \in 1..Len(ls) |-> Tail(ls[i])]

\* The positions (0-based) where the block occurs verbatim in the text.
Occurrences(lines, block) ==
    {i \in 0..(Len(lines) - Len(block)) : SubSeq(lines, i + 1, i + Len(block)) = block}

\* C30: when the old lines of the patch occur verbatim in the text, the result is the
\* lines before the first occurrence, the new lines, and the lines after it; when the
\* old lines are non-empty and no position has at least half of them, it throws; when
\* the content holds no patch, it throws.
C30_FirstOccurrenceReplaced ==
    patchResult # NoResult =>
        LET old == OldLinesOf(patchContent)
            new == NewLinesOf(patchContent)
            occ == Occurrences(patchText, old)
        IN  /\ (old # <<>> /\ occ # {}) =>
                   LET i == CHOOSE i \in occ : \A k \in occ : i <= k
                   IN  patchResult.value = SubSeq(patchText, 1, i) \o new
                                           \o Slice(patchText, i + Len(old))
            /\ (old # <<>> /\ \A i \in 0..(Len(patchText) - 1) :
                                   2 * MatchCount(patchText, old, i) < Len(old))
                   => patchResult.value = Thrown
            /\ HunkOf(patchContent) = <<>> => patchResult.value = Thrown

----------------------------------------------------------------------------
(* Properties of the Accept/Reject buttons (SpecButtons) *)

\* C21: once the handlers have finished and the webview has received its messages, the
\* buttons shown refer to the newest patch: the session id of the webview is
\* ChatPanel.currentPatchSessionId.
C21_ButtonsReferToNewestPatch ==
    (/\ \A h \in 1..Len(cpHandlers) : cpHandlers[h].at = "done"
     /\ cpPosted = <<>>
     /\ wvShown)
        => wvCurrentPatchSessionId = cpCurrentPatchSessionId

----------------------------------------------------------------------------
(* Properties of useConversation (SpecConv) *)

\* C28: the live stream is open only when the replay is over, and the events passed to
\* onEventsUpdate are the backend events 1, 2, ... each once and in sequence order.
C28_EachEventOnceInOrder ==
    /\ liveOpen => ~replayOpen
    /\ \A i \in 1..Len(eventsRef) : eventsRef[i] = i

====
